---- MODULE Spec2Model ----
(***************************************************************************)
(* A model of reporewrite.py: the batch orchestrator                       *)
(* (BackendController.process_batch) and the commit-history rewrite        *)
(* (CommitModifier).                                                       *)
(*                                                                         *)
(* Spec         : one run of process_batch over a worklist, every step of  *)
(*                an item ending in one of the outcomes its code allows.   *)
(* SpecRewrite  : one call of update_commit_metadata on a repository drawn *)
(*                from a bounded family of commit graphs.                  *)
(* SpecTimeline : one call of randomize_commit_dates for a commit count    *)
(*                and an interval.                                         *)
(* SpecSingle   : runs of the single-repository execute path of the GUI.   *)
(* SpecBranches : calls of rename_branch and rename_branches on a set of   *)
(*                branches.                                                *)
(* SpecScrub    : calls of clean_sensitive_data on a working tree.         *)
(* SpecRemotes  : calls of add_remote and set_remote_url on the remotes of *)
(*                a repository.                                            *)
(* SpecLogging  : calls of log_event, retrieve_logs and clear_logs on a    *)
(*                LoggingModule.                                           *)
(* SpecFind     : one call of find_sensitive_files on a working tree.      *)
(* SpecWindow   : the window of the GUI: its buttons, the worker thread    *)
(*                Execute starts, the callbacks the thread schedules, and  *)
(*                the closing of the window.                               *)
(***************************************************************************)
EXTENDS Integers, Sequences, FiniteSets, TLC

VARIABLES
    \* ---- BackendController and the file system (Spec) ----
    repo_urls,      \* the worklist handed to process_batch
    operations,     \* the operations dictionary handed to process_batch
    pc,             \* position of the control flow of process_batch
    i,              \* 1-based index of the item in progress
    result,         \* the result dictionary of the item in progress
    batch_results,  \* self.batch_results
    batch_mode,     \* self.batch_mode
    repo_handler,   \* self.repo_handler: NoHandler or a RepositoryHandler
    repo_path,      \* self.repo_path
    modules_path,   \* repo_path the commit/branch/file modules were built for
    disk,           \* temporary directories that exist on disk
    next_dir,       \* the next name tempfile.mkdtemp() hands out
    executed,       \* history: <<item, step>> for every call made, in order
    faults,         \* history: <<item, step, outcome>> for every outcome # "ok"
    \* ---- the repository CommitModifier works on (SpecRewrite) ----
    refs,           \* the commit every ref points to
    refs0,          \* history: the refs before update_commit_metadata
    new_dates,      \* the new_dates argument, and where it came from
    call,           \* the call of update_commit_metadata, how it ended, and
                    \* the commits it listed (by slot, in the order listed)
    sha7,           \* history: the id prefix each commit had when listed
    scratch,        \* the scratch files present in .git
    \* ---- one call of randomize_commit_dates (SpecTimeline) ----
    timeline,       \* the commit count, the interval and what the call gave
    \* ---- the single-repository execute path (SpecSingle) ----
    gui,            \* the values of the input fields read by the run
    runs,           \* the number of runs started
    \* ---- BranchRemoteManager (SpecBranches) ----
    branches,       \* the commit every branch points to
    rename_log,     \* history: every rename_branch call and what it did
    \* ---- FileProcessor (SpecScrub) ----
    files,          \* the content of every file of the working tree
    scrub_log,      \* history: every clean_sensitive_data call and what it did
    \* ---- the remotes of the repository (SpecRemotes) ----
    remotes,        \* the URL of every remote
    remote_log,     \* history: every add_remote / set_remote_url call
    \* ---- LoggingModule (SpecLogging) ----
    logs,           \* self.logs
    clock,          \* datetime.datetime.now(), in ticks
    log_calls,      \* history: every call made on the module, in order
    retrieved,      \* what the last retrieve_logs returned
    \* ---- one call of find_sensitive_files (SpecFind) ----
    worktree,       \* the paths of the files of the working tree
    found,          \* the call and the list it returned
    \* ---- RepoRewriteGUI (SpecWindow) ----
    widgets,        \* the state of every widget of the window
    window,         \* "open" until root.destroy()
    threads,        \* the number of worker threads that have not ended
    pending,        \* the callbacks handed to root.after(0, ...), in order
    log_text,       \* the lines of the on-screen log
    handler         \* history: the handler or thread that took the last step

batchVars == <<repo_urls, operations, pc, i, result, batch_results, batch_mode,
               repo_handler, repo_path, modules_path, disk, next_dir,
               executed, faults>>

rewriteVars == <<refs, refs0, new_dates, call, sha7, scratch>>

timelineVars == <<timeline>>

guiVars == <<gui, runs>>

branchVars == <<branches, rename_log>>

scrubVars == <<files, scrub_log>>

remoteVars == <<remotes, remote_log>>

loggingVars == <<logs, clock, log_calls, retrieved>>

findVars == <<worktree, found>>

windowVars == <<widgets, window, threads, pending, log_text, handler>>

vars == <<batchVars, rewriteVars, timelineVars, guiVars, branchVars, scrubVars,
          remoteVars, loggingVars, findVars, windowVars>>

\* What each specification leaves alone.
outsideBatch    == <<rewriteVars, timelineVars, guiVars, branchVars, scrubVars,
                     remoteVars, loggingVars, findVars, windowVars>>
outsideRewrite  == <<batchVars, timelineVars, guiVars, branchVars, scrubVars,
                     remoteVars, loggingVars, findVars, windowVars>>
outsideTimeline == <<batchVars, rewriteVars, guiVars, branchVars, scrubVars,
                     remoteVars, loggingVars, findVars, windowVars>>
outsideSingle   == <<rewriteVars, timelineVars, branchVars, scrubVars,
                     remoteVars, loggingVars, findVars, windowVars>>
outsideBranches == <<batchVars, rewriteVars, timelineVars, guiVars, scrubVars,
                     remoteVars, loggingVars, findVars, windowVars>>
outsideScrub    == <<batchVars, rewriteVars, timelineVars, guiVars, branchVars,
                     remoteVars, loggingVars, findVars, windowVars>>
outsideRemotes  == <<batchVars, rewriteVars, timelineVars, guiVars, branchVars,
                     scrubVars, loggingVars, findVars, windowVars>>
outsideLogging  == <<batchVars, rewriteVars, timelineVars, guiVars, branchVars,
                     scrubVars, remoteVars, findVars, windowVars>>
outsideFind     == <<batchVars, rewriteVars, timelineVars, guiVars, branchVars,
                     scrubVars, remoteVars, loggingVars, windowVars>>
outsideWindow   == <<rewriteVars, timelineVars, branchVars, scrubVars,
                     remoteVars, loggingVars, findVars>>

----------------------------------------------------------------------------
(* Bounds *)

MaxItems == 2

MaxCommits == 3

MaxRuns == 2

MaxRenames == 2

MaxLen == 2

MaxPasses == 2

TicksPerSecond == 2

----------------------------------------------------------------------------
(* Values *)

None == "None"

\* Python truthiness of the values an operations dictionary holds: None, the
\* empty string, the empty dict and the empty list are false.
Truthy(v) == v \notin {None, "", "{}", "[]"}

Urls == {"u1", "u2"}

\* Worklists of up to MaxItems URLs, repeats included. URLs are labels only,
\* so the first one is fixed.
Worklists ==
    {w \in UNION {[1..n -> Urls] : n \in 0..MaxItems} : Len(w) > 0 => w[1] = "u1"}

OperationsSet ==
    [new_author         : {None, "A"},
     new_email          : {None, "a@x.com"},
     randomize_dates    : BOOLEAN,
     branch_mapping     : {"{}", "{old: new}"},
     patterns           : {"[]", "[secret]"},
     replacement        : {"", "[REDACTED]"},
     remote_url         : {None, "dest"},
     token              : {None, "tok"},
     repo_name_template : {None, "{repo_name}-{index}"}]

\* Temporary directories are named 1, 2, ...; NoDir is the None of a path.
NoDir == 0

NoHandler == [temp_dir |-> NoDir, repo |-> None, exists |-> FALSE]

\* result = {'repo_url': ..., 'success': False, 'error': None,
\*           'operations_completed': []}
FreshResult(url) ==
    [repo_url |-> url, success |-> FALSE, error |-> None,
     operations_completed |-> <<>>]

----------------------------------------------------------------------------
(* RepositoryHandler.cleanup and BackendController.cleanup *)

HandlerCleanup_OnlyWhenCloned(h, dsk) ==
    IF h.repo # None /\ h.temp_dir \in dsk
    THEN dsk \ {h.temp_dir}
    ELSE dsk

\* if self.temp_dir and os.path.exists(self.temp_dir): shutil.rmtree(...)
HandlerCleanup(h, dsk) ==
    IF h.temp_dir # NoDir /\ h.temp_dir \in dsk
    THEN dsk \ {h.temp_dir}
    ELSE dsk

ControllerCleanup(h, dsk) ==
    IF h.exists THEN HandlerCleanup(h, dsk) ELSE dsk

----------------------------------------------------------------------------
(* The outcomes a step's external calls can have *)

InitializeOutcomes == {"ok", "clone_raises", "info_raises"}
RewriteOutcomes    == {"ok", "raises"}
RenameOutcomes     == {"ok", "rejected", "raises"}
CleanOutcomes      == {"ok", "raises"}
PublishOutcomes    == {"ok", "provision_raises", "configure_raises",
                       "push_error_flag", "push_command_error", "push_raises"}

\* RemoteRepositoryManager.push_changes: an ERROR flag on a ref and a
\* GitCommandError are both answered with False; anything else is re-raised.
PushChanges(outcome) ==
    CASE outcome = "push_error_flag"    -> "False"
      [] outcome = "push_command_error" -> "False"
      [] outcome = "push_raises"        -> "raise"
      [] OTHER                          -> "True"

\* BackendController.setup_remote_and_push: provisions when a token and a name
\* are given and no URL is, configures the remote, pushes, and returns True;
\* the value push_changes returns is not looked at.
Provisions(remote_url, token, repo_name) ==
    Truthy(token) /\ Truthy(repo_name) /\ ~Truthy(remote_url)

SetupRemoteAndPush(outcome, provisions) ==
    CASE outcome = "provision_raises" /\ provisions -> "raise"
      [] outcome = "configure_raises"               -> "raise"
      [] PushChanges(outcome) = "raise"             -> "raise"
      [] OTHER                                      -> "True"

SetupRemoteAndPushCalls_PushAgain(outcome, provisions) ==
    (IF provisions THEN <<"create_remote_repo">> ELSE <<>>)
    \o (IF outcome = "provision_raises" /\ provisions
        THEN <<>>
        ELSE <<"configure_remote">>
             \o (IF outcome = "configure_raises" THEN <<>>
                 ELSE IF PushChanges(outcome) = "True" THEN <<"push_changes">>
                 ELSE <<"push_changes", "push_changes">>))

\* The calls setup_remote_and_push makes, in order, for an outcome.
SetupRemoteAndPushCalls(outcome, provisions) ==
    (IF provisions THEN <<"create_remote_repo">> ELSE <<>>)
    \o (IF outcome = "provision_raises" /\ provisions
        THEN <<>>
        ELSE <<"configure_remote">>
             \o (IF outcome = "configure_raises" THEN <<>> ELSE <<"push_changes">>))

\* BackendController.rename_branches: a rename_branch that answers False is
\* not looked at; only an exception leaves the loop.
RenameBranches(outcome) ==
    IF outcome = "raises" THEN "raise" ELSE "True"

----------------------------------------------------------------------------
(* process_batch *)

ExceptTarget_AbortsBatch == "returned"

\* Where control goes when a step of an item raises: the except clause of
\* the item's try statement, then its finally clause.
ExceptTarget == "finally"

Calls(item, names) == [k \in 1..Len(names) |-> <<item, names[k]>>]

Fault(item, step, outcome) ==
    IF outcome = "ok" THEN {} ELSE {<<item, step, outcome>>}

Caught_ErrorNotRecorded(res, step, outcome) == res

\* except Exception as e: result['error'] = str(e)
Caught(res, step, outcome) == [res EXCEPT !.error = step \o ": " \o outcome]

Completed_NotRecorded(res, step) == res

Completed(res, step) ==
    [res EXCEPT !.operations_completed = Append(@, step)]

\* A loop that is left before its first item.
LoopHead_SkipsLoop(k) ==
    /\ pc' = "returned"
    /\ i' = k
    /\ result' = result

\* The head of the for loop: the next item gets a fresh result, or the loop ends.
LoopHead(k) ==
    IF k <= Len(repo_urls)
    THEN /\ pc' = "initialize"
         /\ i' = k
         /\ result' = FreshResult(repo_urls[k])
    ELSE /\ pc' = "returned"
         /\ i' = k
         /\ result' = result

\* process_batch entered from the position `at` of its caller.
ProcessBatchFrom(at) ==
    /\ pc = at
    /\ batch_mode' = TRUE
    /\ batch_results' = <<>>
    /\ LoopHead(1)
    /\ UNCHANGED <<repo_urls, operations, repo_handler, repo_path, modules_path,
                   disk, next_dir, executed, faults>>

ProcessBatch == ProcessBatchFrom("idle")

\* An initialize whose failure is not raised: the item goes on.
Initialize_FailureNotRaised ==
    /\ pc = "initialize"
    /\ \E outcome \in InitializeOutcomes :
        LET d == next_dir IN
        /\ next_dir' = next_dir + 1
        /\ disk' = disk \cup {d}
        /\ repo_handler' = [temp_dir |-> d,
                            repo |-> IF outcome = "clone_raises" THEN None ELSE repo_urls[i],
                            exists |-> TRUE]
        /\ repo_path' = IF outcome = "clone_raises" THEN repo_path ELSE d
        /\ modules_path' = IF outcome = "ok" THEN d ELSE modules_path
        /\ executed' = Append(executed, <<i, "initialize">>)
        /\ faults' = faults \cup Fault(i, "initialize", outcome)
        /\ pc' = "rewrite_history"
        /\ result' = result
    /\ UNCHANGED <<repo_urls, operations, i, batch_results, batch_mode>>

\* BackendController.initialize: a new RepositoryHandler, clone_repo into a
\* new temporary directory, fetch_repo_info, then the modules for the path.
Initialize ==
    /\ pc = "initialize"
    /\ \E outcome \in InitializeOutcomes :
        LET d == next_dir IN
        /\ next_dir' = next_dir + 1
        /\ disk' = disk \cup {d}
        /\ repo_handler' = [temp_dir |-> d,
                            repo |-> IF outcome = "clone_raises" THEN None ELSE repo_urls[i],
                            exists |-> TRUE]
        /\ repo_path' = IF outcome = "clone_raises" THEN repo_path ELSE d
        /\ modules_path' = IF outcome = "ok" THEN d ELSE modules_path
        /\ executed' = Append(executed, <<i, "initialize">>)
        /\ faults' = faults \cup Fault(i, "initialize", outcome)
        /\ IF outcome = "ok"
           THEN pc' = "rewrite_history" /\ result' = result
           ELSE pc' = ExceptTarget /\ result' = Caught(result, "initialize", outcome)
    /\ UNCHANGED <<repo_urls, operations, i, batch_results, batch_mode>>

\* A step that the operations dictionary does not ask for is passed over.
Skip(next) ==
    /\ pc' = next
    /\ UNCHANGED <<result, executed, faults>>

\* A step that runs: it is recorded, and either completes or is caught.
Run(step, calls, outcome, raised, next) ==
    /\ executed' = executed \o Calls(i, calls)
    /\ faults' = faults \cup Fault(i, step, outcome)
    /\ IF raised
       THEN pc' = ExceptTarget /\ result' = Caught(result, step, outcome)
       ELSE pc' = next /\ result' = Completed(result, step)

RewriteHistory ==
    /\ pc = "rewrite_history"
    /\ IF Truthy(operations.new_author) /\ Truthy(operations.new_email)
       THEN \E outcome \in RewriteOutcomes :
               Run("rewrite_history", <<"rewrite_history">>, outcome,
                   outcome = "raises", "rename_branches")
       ELSE Skip("rename_branches")
    /\ UNCHANGED <<repo_urls, operations, i, batch_results, batch_mode,
                   repo_handler, repo_path, modules_path, disk, next_dir>>

RenameBranchesStep ==
    /\ pc = "rename_branches"
    /\ IF Truthy(operations.branch_mapping)
       THEN \E outcome \in RenameOutcomes :
               Run("rename_branches", <<"rename_branches">>, outcome,
                   RenameBranches(outcome) = "raise", "clean_sensitive_data")
       ELSE Skip("clean_sensitive_data")
    /\ UNCHANGED <<repo_urls, operations, i, batch_results, batch_mode,
                   repo_handler, repo_path, modules_path, disk, next_dir>>

CleanSensitiveData ==
    /\ pc = "clean_sensitive_data"
    /\ IF Truthy(operations.patterns) /\ Truthy(operations.replacement)
       THEN \E outcome \in CleanOutcomes :
               Run("clean_sensitive_data", <<"clean_sensitive_data">>, outcome,
                   outcome = "raises", "setup_remote_and_push")
       ELSE Skip("setup_remote_and_push")
    /\ UNCHANGED <<repo_urls, operations, i, batch_results, batch_mode,
                   repo_handler, repo_path, modules_path, disk, next_dir>>

\* The last step of the try block; result['success'] = True follows it.
Publish ==
    /\ pc = "setup_remote_and_push"
    /\ LET remote_url == operations.remote_url
           token == operations.token
           repo_name_for_remote == operations.repo_name_template
           provisions == Provisions(remote_url, token, repo_name_for_remote)
       IN IF Truthy(remote_url) \/ (Truthy(token) /\ Truthy(repo_name_for_remote))
          THEN \E outcome \in PublishOutcomes :
                /\ outcome = "provision_raises" => provisions
                /\ executed' = executed
                      \o Calls(i, <<"setup_remote_and_push">>
                                  \o SetupRemoteAndPushCalls(outcome, provisions))
                /\ faults' = faults \cup Fault(i, "setup_remote_and_push", outcome)
                /\ IF SetupRemoteAndPush(outcome, provisions) = "raise"
                   THEN /\ pc' = ExceptTarget
                        /\ result' = Caught(result, "setup_remote_and_push", outcome)
                   ELSE /\ pc' = "finally"
                        /\ result' = [Completed(result, "setup_remote_and_push")
                                        EXCEPT !.success = TRUE]
          ELSE /\ pc' = "finally"
               /\ result' = [result EXCEPT !.success = TRUE]
               /\ UNCHANGED <<executed, faults>>
    /\ UNCHANGED <<repo_urls, operations, i, batch_results, batch_mode,
                   repo_handler, repo_path, modules_path, disk, next_dir>>

\* finally: self.cleanup(); self.batch_results.append(result); then the loop
\* goes on with the next item.
Release ==
    /\ pc = "finally"
    /\ disk' = ControllerCleanup(repo_handler, disk)
    /\ executed' = Append(executed, <<i, "cleanup">>)
    /\ batch_results' = Append(batch_results, result)
    /\ LET k == i + 1 IN
       IF k <= Len(repo_urls)
       THEN pc' = "initialize" /\ i' = k /\ result' = FreshResult(repo_urls[k])
       ELSE pc' = "returned" /\ i' = k /\ result' = result
    /\ UNCHANGED <<repo_urls, operations, batch_mode, repo_handler, repo_path,
                   modules_path, next_dir, faults>>

----------------------------------------------------------------------------
(* Spec: a BackendController as constructed, handed a worklist *)

\* No repository is looked into while the batch model runs.
RewriteIdle ==
    /\ refs = <<>>
    /\ refs0 = <<>>
    /\ new_dates = <<>>
    /\ call = <<>>
    /\ sha7 = <<>>
    /\ scratch = {}

\* No call of randomize_commit_dates on its own.
NoTimeline == [state |-> "none", num_commits |-> 0, start_date |-> 0,
               end_date |-> 0, random_dates |-> <<>>]

TimelineIdle == timeline = NoTimeline

\* The input fields as the window is built: all empty.
NoGui == [repo_url |-> "", target_dir |-> "", author_name |-> "",
          author_email |-> "", branch_mapping |-> "{}",
          remove_sensitive_data |-> FALSE, remote_url |-> "",
          github_token |-> "", repo_name |-> ""]

GuiIdle ==
    /\ gui = NoGui
    /\ runs = 0

BranchesIdle ==
    /\ branches = <<>>
    /\ rename_log = <<>>

ScrubIdle ==
    /\ files = <<>>
    /\ scrub_log = <<>>

RemotesIdle ==
    /\ remotes = <<>>
    /\ remote_log = <<>>

LoggingIdle ==
    /\ logs = <<>>
    /\ clock = 0
    /\ log_calls = <<>>
    /\ retrieved = <<>>

FindIdle ==
    /\ worktree = {}
    /\ found = <<>>

\* No window has been built.
WindowIdle ==
    /\ widgets = <<>>
    /\ window = "none"
    /\ threads = 0
    /\ pending = <<>>
    /\ log_text = <<>>
    /\ handler = "none"

\* The modules that a specification about another module leaves unused.
ToolsIdle ==
    /\ RemotesIdle
    /\ LoggingIdle
    /\ FindIdle
    /\ WindowIdle

Init ==
    /\ ToolsIdle
    /\ repo_urls \in Worklists
    /\ operations \in OperationsSet
    /\ pc = "idle"
    /\ i = 0
    /\ result = FreshResult(None)
    /\ batch_results = <<>>
    /\ batch_mode = FALSE
    /\ repo_handler = NoHandler
    /\ repo_path = NoDir
    /\ modules_path = NoDir
    /\ disk = {}
    /\ next_dir = 1
    /\ executed = <<>>
    /\ faults = {}
    /\ RewriteIdle
    /\ TimelineIdle
    /\ GuiIdle
    /\ BranchesIdle
    /\ ScrubIdle

Next ==
    \/ ProcessBatch /\ UNCHANGED outsideBatch
    \/ Initialize /\ UNCHANGED outsideBatch
    \/ RewriteHistory /\ UNCHANGED outsideBatch
    \/ RenameBranchesStep /\ UNCHANGED outsideBatch
    \/ CleanSensitiveData /\ UNCHANGED outsideBatch
    \/ Publish /\ UNCHANGED outsideBatch
    \/ Release /\ UNCHANGED outsideBatch

Spec == Init /\ [][Next]_vars

\* process_batch when every call it makes returns or raises: a step that
\* can be taken is taken.
SpecFair == Spec /\ WF_vars(Next)

----------------------------------------------------------------------------
(* The repository CommitModifier works on *)

\* A commit is the value of its content: the commit it was made from (slot:
\* its tree and message), its author and committer, its two times and its
\* parent commits. Two commits are the same object exactly when these agree,
\* which is what a content-addressed id says; a ref holds a commit.
Slots == 1..MaxCommits

NewIdentity == [name |-> "A", email |-> "a@x.com"]
OldIdentity == [name |-> "B", email |-> "b@x.com"]

\* Who wrote and who committed an original commit.
Signatures ==
    {[author |-> OldIdentity, committer |-> OldIdentity],
     [author |-> NewIdentity, committer |-> OldIdentity]}

RefNames == {"main", "dev"}

\* repo.active_branch: the branch a fresh clone has checked out.
HEAD == "main"

\* Commit graphs on n commits: commit 1 is the root, every other commit has
\* one or two parents among the older commits.
Graphs(n) ==
    {g \in [1..n -> SUBSET (1..n)] :
        \A c \in 1..n :
            /\ g[c] \subseteq 1..(c-1)
            /\ Cardinality(g[c]) <= 2
            /\ c > 1 => g[c] # {}}

RECURSIVE MakeCommit(_, _, _)
MakeCommit(g, sig, c) ==
    [slot      |-> c,
     author    |-> sig[c].author,
     committer |-> sig[c].committer,
     adate     |-> c,
     cdate     |-> c,
     parents   |-> {MakeCommit(g, sig, p) : p \in g[c]}]

RECURSIVE Reachable(_)
Reachable(c) == {c} \cup UNION {Reachable(p) : p \in c.parents}

AllCommits(rs) == UNION {Reachable(rs[r]) : r \in DOMAIN rs}

\* The repositories a call starts from: every commit is reachable from a ref.
RepositoriesOn(n, g, sig) ==
    {rs \in [RefNames -> {MakeCommit(g, sig, c) : c \in 1..n}] :
        {c.slot : c \in AllCommits(rs)} = 1..n}

Repositories ==
    UNION {UNION {UNION {RepositoriesOn(n, g, sig) : sig \in [1..n -> Signatures]}
                  : g \in Graphs(n)}
           : n \in 1..MaxCommits}

----------------------------------------------------------------------------
(* CommitModifier *)

\* Times: a datetime is a whole number of ticks, TicksPerSecond to the second;
\* a commit's times are whole seconds. The original commits carry the times
\* 1..MaxCommits, the interval handed to randomize_commit_dates starts later.
\* new_date.strftime('%Y-%m-%d %H:%M:%S') drops the part below the second.
Strftime(t) == t \div TicksPerSecond

\* The intervals handed to randomize_commit_dates: seconds 10.5 to 11.5.
Intervals == {[start_date |-> 10 * TicksPerSecond + 1,
               end_date   |-> 11 * TicksPerSecond + 1]}

\* The first seven characters of a commit's hexsha stand as one symbol, the
\* other thirty-three as a second one; full ids differ for different commits.
Prefixes == {"aaaaaaa", "bbbbbbb"}

Hexsha(h, c) == <<h[c.slot], c.slot>>

\* commit.hexsha[:7]
Short(hexsha) == SubSeq(hexsha, 1, 1)

\* [[ "$GIT_COMMIT" == "$SHA"* ]]
StartsWith(hexsha, sha) ==
    Len(sha) <= Len(hexsha) /\ SubSeq(hexsha, 1, Len(sha)) = sha

\* The ids the commits of a repository can have at the time they are listed.
ShaAssignments(rs) ==
    {h \in [{c.slot : c \in AllCommits(rs)} -> Prefixes] :
        h[rs[HEAD].slot] = "aaaaaaa"}

\* git's date-ordered commit list: a commit goes before the first entry
\* that is older than it.
RECURSIVE InsertByDate(_, _)
InsertByDate(queue, c) ==
    IF queue = <<>> THEN <<c>>
    ELSE IF Head(queue).cdate < c.cdate THEN <<c>> \o queue
    ELSE <<Head(queue)>> \o InsertByDate(Tail(queue), c)

RECURSIVE InsertAllByDate(_, _)
InsertAllByDate(queue, cs) ==
    IF cs = {} THEN queue
    ELSE LET c == CHOOSE x \in cs : \A y \in cs : x.slot >= y.slot
         IN InsertAllByDate(InsertByDate(queue, c), cs \ {c})

RECURSIVE RevWalk(_, _, _)
RevWalk(queue, seen, out) ==
    IF queue = <<>> THEN out
    ELSE LET c == Head(queue)
             new == {p \in c.parents : p \notin seen}
         IN RevWalk(InsertAllByDate(Tail(queue), new), seen \cup new, Append(out, c))

\* list(repo.iter_commits()): the commits reachable from HEAD, newest first.
IterCommits(rs) == RevWalk(<<rs[HEAD]>>, {rs[HEAD]}, <<>>)

\* random.random() * time_range, in ticks: a value of [0, time_range).
RandomSeconds(time_range) ==
    IF time_range > 0 THEN 0..(time_range - 1)
    ELSE IF time_range = 0 THEN {0}
    ELSE (time_range + 1)..0

SortedReverse_Unsorted(n, S) == [1..n -> S]

\* random_seconds.sort(reverse=True)
SortedReverse(n, S) ==
    {s \in [1..n -> S] : \A a, b \in 1..n : a < b => s[a] >= s[b]}

\* The lists randomize_commit_dates can return for num_commits commits:
\* start_date plus each of the sorted offsets.
RandomDates(num_commits, start_date, end_date) ==
    LET time_range == end_date - start_date
    IN {[k \in 1..num_commits |-> start_date + s[k]] :
            s \in SortedReverse(num_commits, RandomSeconds(time_range))}

\* CommitModifier.randomize_commit_dates: the lists it can return.
RandomizeCommitDatesResults(rs, start_date, end_date) ==
    RandomDates(Len(IterCommits(rs)), start_date, end_date)

\* The env-filter of update_commit_metadata.
EnvFilterAuthor(c, new_author, new_email) ==
    IF c.author.name # new_author \/ c.author.email # new_email
    THEN [c EXCEPT !.author    = [name |-> new_author, email |-> new_email],
                   !.committer = [name |-> new_author, email |-> new_email]]
    ELSE c

\* date_map[key] = value on a dict: a known key keeps its place and takes the
\* new value, a new key goes last.
DictSet(d, key, value) ==
    IF \E j \in DOMAIN d : d[j].sha = key
    THEN [j \in DOMAIN d |-> IF d[j].sha = key THEN [sha |-> key, date |-> value] ELSE d[j]]
    ELSE Append(d, [sha |-> key, date |-> value])

\* The lines of .git/date_map.txt.
DateMap(commits, dates, h) ==
    LET F[k \in 0..Len(commits)] ==
            IF k = 0 THEN <<>>
            ELSE DictSet(F[k-1], Short(Hexsha(h, commits[k])), Strftime(dates[k]))
    IN F[Len(commits)]

\* .git/change_dates.sh: the first line whose SHA the commit's id starts with
\* gives both dates.
EnvFilterDates(c, lines, h) ==
    LET hits == {k \in DOMAIN lines : StartsWith(Hexsha(h, c), lines[k].sha)}
    IN IF hits = {} THEN c
       ELSE LET k == CHOOSE x \in hits : \A y \in hits : x <= y
            IN [c EXCEPT !.adate = lines[k].date, !.cdate = lines[k].date]

RewrittenRefs_CurrentBranchOnly(rs) == {HEAD}

\* The refs "-- --all" names.
RewrittenRefs(rs) == DOMAIN rs

\* git filter-branch --env-filter: a commit is made again from the filtered
\* environment of the original and the rewritten parents.
RECURSIVE RewriteAuthor(_, _, _)
RewriteAuthor(c, new_author, new_email) ==
    [EnvFilterAuthor(c, new_author, new_email)
        EXCEPT !.parents = {RewriteAuthor(p, new_author, new_email) : p \in c.parents}]

RECURSIVE RewriteDates(_, _, _)
RewriteDates(c, lines, h) ==
    [EnvFilterDates(c, lines, h)
        EXCEPT !.parents = {RewriteDates(p, lines, h) : p \in c.parents}]

FilterBranchAuthor(rs, new_author, new_email) ==
    [r \in DOMAIN rs |->
        IF r \in RewrittenRefs(rs) THEN RewriteAuthor(rs[r], new_author, new_email)
        ELSE rs[r]]

FilterBranchDates(rs, lines, h) ==
    [r \in DOMAIN rs |->
        IF r \in RewrittenRefs(rs) THEN RewriteDates(rs[r], lines, h) ELSE rs[r]]

ToolOutcomes == {"ok", "nonzero"}

ScratchFiles == {"date_map.txt", "change_dates.sh"}

\* CommitModifier._update_commit_dates on refs rs: the refs it leaves, the
\* error it raises (None when it returns True), the scratch files it leaves
\* and the commits it listed.
UpdateCommitDates(rs, dates, tool, h) ==
    LET commits == IterCommits(rs) IN
    IF Len(commits) # Len(dates)
    THEN [refs |-> rs, error |-> "ValueError", scratch |-> {}, commits |-> commits]
    ELSE IF tool = "nonzero"
    THEN [refs |-> rs, error |-> "RuntimeError", scratch |-> ScratchFiles,
          commits |-> commits]
    ELSE [refs |-> FilterBranchDates(rs, DateMap(commits, dates, h), h),
          error |-> None, scratch |-> {}, commits |-> commits]

\* CommitModifier.update_commit_metadata: the author pass when both a name
\* and an email are given, then the date pass when new_dates is a non-empty
\* list.
UpdateCommitMetadataResult(rs, new_author, new_email, dates, tool1, tool2, h) ==
    LET filters == Truthy(new_author) /\ Truthy(new_email)
        rs1 == IF filters /\ tool1 = "ok"
               THEN FilterBranchAuthor(rs, new_author, new_email)
               ELSE rs
    IN IF filters /\ tool1 = "nonzero"
       THEN [refs |-> rs, error |-> "RuntimeError", scratch |-> {}, commits |-> <<>>]
       ELSE IF dates.given /\ dates.list # <<>>
       THEN UpdateCommitDates(rs1, dates.list, tool2, h)
       ELSE [refs |-> rs1, error |-> None, scratch |-> {}, commits |-> <<>>]

NoDates == [given |-> FALSE, list |-> <<>>, from |-> "none"]

NoCall == [state |-> "none", new_author |-> None, new_email |-> None,
           error |-> None, commits |-> <<>>]

\* rewrite_history with randomize_dates: randomize_commit_dates draws the list.
RandomizeCommitDates ==
    /\ call.state = "none"
    /\ new_dates.from = "none"
    /\ \E iv \in Intervals :
       \E list \in RandomizeCommitDatesResults(refs, iv.start_date, iv.end_date) :
          new_dates' = [given |-> TRUE, list |-> list, from |-> "randomized"]
    /\ UNCHANGED <<refs, refs0, call, sha7, scratch>>

\* A caller of update_commit_metadata brings a list of its own, of any length.
SupplyDates ==
    /\ call.state = "none"
    /\ new_dates.from = "none"
    /\ \E n \in 0..(MaxCommits + 1) :
          new_dates' = [given |-> TRUE,
                        list |-> [k \in 1..n |-> 10 * TicksPerSecond],
                        from |-> "supplied"]
    /\ UNCHANGED <<refs, refs0, call, sha7, scratch>>

\* if new_dates: a list that is given and not empty.
RunsDatePass(dates) == dates.given /\ dates.list # <<>>

\* One call of update_commit_metadata. The outcome of a tool that is not
\* run, and the ids of commits that are not looked up, are not drawn.
UpdateCommitMetadata ==
    /\ call.state = "none"
    /\ \E id \in {[name |-> None, email |-> None], NewIdentity},
          tool1, tool2 \in ToolOutcomes,
          h \in ShaAssignments(refs) :
        LET filters == Truthy(id.name) /\ Truthy(id.email)
            dated == RunsDatePass(new_dates) /\ ~(filters /\ tool1 = "nonzero")
            counted == dated /\ Len(new_dates.list) = Len(IterCommits(refs))
        IN /\ ~filters => tool1 = "ok"
           /\ ~counted => tool2 = "ok"
           /\ ~(counted /\ tool2 = "ok") => h = sha7
           /\ LET res == UpdateCommitMetadataResult(refs, id.name, id.email,
                                                    new_dates, tool1, tool2, h)
              IN /\ refs' = res.refs
                 /\ scratch' = res.scratch
                 /\ sha7' = h
                 /\ call' = [state |-> IF res.error = None THEN "returned" ELSE "raised",
                             new_author |-> id.name, new_email |-> id.email,
                             error |-> res.error,
                             commits |-> [k \in DOMAIN res.commits |->
                                             res.commits[k].slot]]
    /\ UNCHANGED <<refs0, new_dates>>

----------------------------------------------------------------------------
(* SpecRewrite: a cloned repository and one call of update_commit_metadata *)

BatchIdle ==
    /\ repo_urls = <<>>
    /\ operations = [new_author |-> None, new_email |-> None,
                     randomize_dates |-> FALSE, branch_mapping |-> "{}",
                     patterns |-> "[]", replacement |-> "", remote_url |-> None,
                     token |-> None, repo_name_template |-> None]
    /\ pc = "idle"
    /\ i = 0
    /\ result = FreshResult(None)
    /\ batch_results = <<>>
    /\ batch_mode = FALSE
    /\ repo_handler = NoHandler
    /\ repo_path = NoDir
    /\ modules_path = NoDir
    /\ disk = {}
    /\ next_dir = 1
    /\ executed = <<>>
    /\ faults = {}

InitRewrite ==
    /\ ToolsIdle
    /\ BatchIdle
    /\ refs \in Repositories
    /\ refs0 = refs
    /\ new_dates = NoDates
    /\ call = NoCall
    /\ sha7 = [s \in {c.slot : c \in AllCommits(refs)} |-> "aaaaaaa"]
    /\ scratch = {}
    /\ TimelineIdle
    /\ GuiIdle
    /\ BranchesIdle
    /\ ScrubIdle

NextRewrite ==
    \/ RandomizeCommitDates /\ UNCHANGED outsideRewrite
    \/ SupplyDates /\ UNCHANGED outsideRewrite
    \/ UpdateCommitMetadata /\ UNCHANGED outsideRewrite

SpecRewrite == InitRewrite /\ [][NextRewrite]_vars

----------------------------------------------------------------------------
(* SpecTimeline: one call of randomize_commit_dates *)

\* The intervals a caller can hand over, in ticks: end_date after, at and
\* before start_date.
TimelineIntervals == [start_date : 20..22, end_date : 20..24]

\* The number of commits list(repo.iter_commits()) delivers.
CommitCounts == 0..MaxCommits

\* randomize_commit_dates(start_date, end_date) with both dates given: the
\* commits are counted, the offsets drawn and sorted, the dates returned.
RandomizeCommitDatesCall ==
    /\ timeline.state = "called"
    /\ \E random_dates \in RandomDates(timeline.num_commits, timeline.start_date,
                                       timeline.end_date) :
          timeline' = [timeline EXCEPT !.state = "returned",
                                       !.random_dates = random_dates]

InitTimeline ==
    /\ ToolsIdle
    /\ BatchIdle
    /\ RewriteIdle
    /\ GuiIdle
    /\ BranchesIdle
    /\ ScrubIdle
    /\ \E n \in CommitCounts, iv \in TimelineIntervals :
          timeline = [state |-> "called", num_commits |-> n,
                      start_date |-> iv.start_date, end_date |-> iv.end_date,
                      random_dates |-> <<>>]

NextTimeline ==
    RandomizeCommitDatesCall /\ UNCHANGED outsideTimeline

SpecTimeline == InitTimeline /\ [][NextTimeline]_vars

----------------------------------------------------------------------------
(* SpecSingle: the single-repository execute path of the GUI *)

\* The values the input fields can hold when Execute is pressed.
GuiInputs ==
    [repo_url              : {"", "u1"},
     target_dir            : {"", "dir"},
     author_name           : {"", "A"},
     author_email          : {"a@x.com"},
     branch_mapping        : {"{}", "{old: new}"},
     remove_sensitive_data : BOOLEAN,
     remote_url            : {"", "dest"},
     github_token          : {"", "tok"},
     repo_name             : {"repo"}]

\* The directory the target field names.
UserDir == -1

\* target_dir = self.target_dir_var.get() if self.target_dir_var.get() else None
TargetDir(field) == IF Truthy(field) THEN UserDir ELSE NoDir

\* Execute on the single-repository tab starts _execute_single_repo_thread,
\* which reads the URL and returns at once when it is empty.
ExecuteSingleFrom(at, fields) ==
    /\ pc \in at
    /\ runs < MaxRuns
    /\ runs' = runs + 1
    /\ \E inputs \in fields :
          /\ gui' = inputs
          /\ pc' = IF Truthy(inputs.repo_url) THEN "single_initialize" ELSE "single_done"
    /\ executed' = <<>>
    /\ faults' = {}
    /\ UNCHANGED <<repo_urls, operations, i, result, batch_results, batch_mode,
                   repo_handler, repo_path, modules_path, disk, next_dir>>

\* One run after another, each with any values in the fields.
ExecuteSingle == ExecuteSingleFrom({"idle", "single_done"}, GuiInputs)

\* self.controller.initialize(repo_url, target_dir): clone_repo makes a
\* temporary directory only when no target directory is given; a clone into
\* a directory that an earlier run filled is refused.
SingleInitialize ==
    /\ pc = "single_initialize"
    /\ \E outcome \in InitializeOutcomes :
        LET target_dir == TargetDir(gui.target_dir)
            temp_dir   == IF target_dir = NoDir THEN next_dir ELSE NoDir
            dir        == IF target_dir = NoDir THEN next_dir ELSE target_dir
            cloned     == outcome # "clone_raises"
        IN
        /\ dir \in disk => ~cloned
        /\ next_dir' = IF target_dir = NoDir THEN next_dir + 1 ELSE next_dir
        /\ disk' = disk \cup (IF temp_dir # NoDir \/ cloned THEN {dir} ELSE {})
        /\ repo_handler' = [temp_dir |-> temp_dir,
                            repo |-> IF cloned THEN gui.repo_url ELSE None,
                            exists |-> TRUE]
        /\ repo_path' = IF cloned THEN dir ELSE repo_path
        /\ modules_path' = IF outcome = "ok" THEN dir ELSE modules_path
        /\ executed' = Append(executed, <<runs, "initialize">>)
        /\ faults' = faults \cup Fault(runs, "initialize", outcome)
        /\ pc' = IF outcome = "ok" THEN "single_rewrite_history" ELSE "single_done"
    /\ UNCHANGED <<repo_urls, operations, i, result, batch_results, batch_mode,
                   gui, runs>>

\* A step of the thread: passed over, completed, or ended by an exception,
\* which the except clause reports before the thread ends.
SingleStep(wanted, step, calls, outcomes, next) ==
    /\ IF wanted
       THEN \E outcome \in outcomes :
               /\ executed' = executed \o Calls(runs, calls)
               /\ faults' = faults \cup Fault(runs, step, outcome)
               /\ pc' = IF outcome \in {"ok", "rejected"} THEN next ELSE "single_done"
       ELSE /\ pc' = next
            /\ UNCHANGED <<executed, faults>>
    /\ UNCHANGED <<repo_urls, operations, i, result, batch_results, batch_mode,
                   repo_handler, repo_path, modules_path, disk, next_dir,
                   gui, runs>>

SingleRewriteHistory ==
    /\ pc = "single_rewrite_history"
    /\ SingleStep(Truthy(gui.author_name) /\ Truthy(gui.author_email),
                  "rewrite_history", <<"rewrite_history">>, RewriteOutcomes,
                  "single_rename_branches")

SingleRenameBranches ==
    /\ pc = "single_rename_branches"
    /\ SingleStep(Truthy(gui.branch_mapping),
                  "rename_branches", <<"rename_branches">>, RenameOutcomes,
                  "single_clean_sensitive_data")

SingleCleanSensitiveData ==
    /\ pc = "single_clean_sensitive_data"
    /\ SingleStep(gui.remove_sensitive_data,
                  "clean_sensitive_data", <<"clean_sensitive_data">>, CleanOutcomes,
                  "single_setup_remote_and_push")

SinglePublish ==
    /\ pc = "single_setup_remote_and_push"
    /\ LET provisions == Provisions(gui.remote_url, gui.github_token, gui.repo_name)
       IN IF Truthy(gui.remote_url) \/ (Truthy(gui.github_token) /\ Truthy(gui.repo_name))
          THEN \E outcome \in PublishOutcomes :
                /\ outcome = "provision_raises" => provisions
                /\ executed' = executed
                      \o Calls(runs, <<"setup_remote_and_push">>
                                     \o SetupRemoteAndPushCalls(outcome, provisions))
                /\ faults' = faults \cup Fault(runs, "setup_remote_and_push", outcome)
                /\ pc' = IF SetupRemoteAndPush(outcome, provisions) = "raise"
                         THEN "single_done" ELSE "single_cleanup"
          ELSE /\ pc' = "single_cleanup"
               /\ UNCHANGED <<executed, faults>>
    /\ UNCHANGED <<repo_urls, operations, i, result, batch_results, batch_mode,
                   repo_handler, repo_path, modules_path, disk, next_dir,
                   gui, runs>>

\* self.controller.cleanup(), the last statement of the try block.
SingleCleanup ==
    /\ pc = "single_cleanup"
    /\ disk' = ControllerCleanup(repo_handler, disk)
    /\ executed' = Append(executed, <<runs, "cleanup">>)
    /\ pc' = "single_done"
    /\ UNCHANGED <<repo_urls, operations, i, result, batch_results, batch_mode,
                   repo_handler, repo_path, modules_path, next_dir, faults,
                   gui, runs>>

InitSingle ==
    /\ ToolsIdle
    /\ BatchIdle
    /\ RewriteIdle
    /\ TimelineIdle
    /\ GuiIdle
    /\ BranchesIdle
    /\ ScrubIdle

NextSingle ==
    \/ ExecuteSingle /\ UNCHANGED outsideSingle
    \/ SingleInitialize /\ UNCHANGED outsideSingle
    \/ SingleRewriteHistory /\ UNCHANGED outsideSingle
    \/ SingleRenameBranches /\ UNCHANGED outsideSingle
    \/ SingleCleanSensitiveData /\ UNCHANGED outsideSingle
    \/ SinglePublish /\ UNCHANGED outsideSingle
    \/ SingleCleanup /\ UNCHANGED outsideSingle

SpecSingle == InitSingle /\ [][NextSingle]_vars

----------------------------------------------------------------------------
(* SpecBranches: BranchRemoteManager.rename_branch and rename_branches *)

BranchNames == {"main", "old", "new"}

\* The commits a branch can point to.
Tips == {"c1", "c2"}

\* The branches of a repository: at least one, each pointing to a commit.
BranchSets == UNION {[N -> Tips] : N \in (SUBSET BranchNames) \ {{}}}

\* git branch -m old_name new_name either moves the branch or fails.
BranchMoveOutcomes == {"ok", "raises"}

\* A move that leaves the old name in place, as a copy would.
GitBranchMove_KeepsOld(bs, old_name, new_name) ==
    [b \in DOMAIN bs \cup {new_name} |->
        IF b = new_name THEN bs[old_name] ELSE bs[b]]

\* self.repo.git.branch("-m", old_name, new_name) when it succeeds: the
\* branch is known by its new name and points where it pointed.
GitBranchMove(bs, old_name, new_name) ==
    [b \in (DOMAIN bs \ {old_name}) \cup {new_name} |->
        IF b = new_name THEN bs[old_name] ELSE bs[b]]

RenameBranch_NoTargetCheck(bs, old_name, new_name, outcome) ==
    IF old_name \notin DOMAIN bs
    THEN [branches |-> bs, returns |-> "False"]
    ELSE IF outcome = "raises"
    THEN [branches |-> bs, returns |-> "raise"]
    ELSE [branches |-> GitBranchMove(bs, old_name, new_name), returns |-> "True"]

\* BranchRemoteManager.rename_branch: the branches it leaves and what it
\* returns; an exception of the git command is re-raised.
RenameBranch(bs, old_name, new_name, outcome) ==
    IF old_name \notin DOMAIN bs
    THEN [branches |-> bs, returns |-> "False"]
    ELSE IF new_name \in DOMAIN bs
    THEN [branches |-> bs, returns |-> "False"]
    ELSE IF outcome = "raises"
    THEN [branches |-> bs, returns |-> "raise"]
    ELSE [branches |-> GitBranchMove(bs, old_name, new_name), returns |-> "True"]

\* What the log keeps of a call of rename_branch.
RenameEntry(bs, old_name, new_name, res) ==
    [old_name |-> old_name, new_name |-> new_name, before |-> bs,
     after |-> res.branches, returns |-> res.returns]

\* branch_mapping.items(): pairs in insertion order, no old name twice.
Mappings ==
    {m \in UNION {[1..n -> [old_name : BranchNames, new_name : BranchNames]]
                  : n \in 1..MaxRenames} :
        \A a, b \in DOMAIN m : a # b => m[a].old_name # m[b].old_name}

\* BackendController.rename_branches: every pair with old_name != new_name
\* is handed to rename_branch, whose value is not looked at; an exception
\* ends the loop.
RECURSIVE RenameBranchesRun(_, _, _, _)
RenameBranchesRun(bs, mapping, outcomes, log) ==
    IF mapping = <<>>
    THEN [branches |-> bs, log |-> log, returns |-> "True"]
    ELSE LET old_name == Head(mapping).old_name
             new_name == Head(mapping).new_name
         IN IF old_name = new_name
            THEN RenameBranchesRun(bs, Tail(mapping), Tail(outcomes), log)
            ELSE LET res  == RenameBranch(bs, old_name, new_name, Head(outcomes))
                     log2 == Append(log, RenameEntry(bs, old_name, new_name, res))
                 IN IF res.returns = "raise"
                    THEN [branches |-> res.branches, log |-> log2, returns |-> "raise"]
                    ELSE RenameBranchesRun(res.branches, Tail(mapping),
                                           Tail(outcomes), log2)

\* One call of rename_branch, with any two names.
RenameBranchCall ==
    /\ Len(rename_log) < MaxRenames
    /\ \E old_name, new_name \in BranchNames, outcome \in BranchMoveOutcomes :
          LET res == RenameBranch(branches, old_name, new_name, outcome) IN
          /\ branches' = res.branches
          /\ rename_log' = Append(rename_log,
                                  RenameEntry(branches, old_name, new_name, res))

\* One call of rename_branches, with a mapping.
RenameBranchesCall ==
    \E mapping \in Mappings :
        /\ Len(rename_log) + Len(mapping) <= MaxRenames
        /\ \E outcomes \in [1..Len(mapping) -> BranchMoveOutcomes] :
              LET res == RenameBranchesRun(branches, mapping, outcomes, rename_log) IN
              /\ branches' = res.branches
              /\ rename_log' = res.log

InitBranches ==
    /\ ToolsIdle
    /\ BatchIdle
    /\ RewriteIdle
    /\ TimelineIdle
    /\ GuiIdle
    /\ ScrubIdle
    /\ branches \in BranchSets
    /\ rename_log = <<>>

NextBranches ==
    \/ RenameBranchCall /\ UNCHANGED outsideBranches
    \/ RenameBranchesCall /\ UNCHANGED outsideBranches

SpecBranches == InitBranches /\ [][NextBranches]_vars

----------------------------------------------------------------------------
(* SpecScrub: FileProcessor and BackendController.clean_sensitive_data *)

\* A text is a sequence of characters; a pattern is a literal word.
Chars == {"s", "S", "k"}

Texts == UNION {[1..n -> Chars] : n \in 0..MaxLen}

Patterns == {<<"s">>, <<"k">>, <<"s", "k">>}

PatternLists == UNION {[1..n -> Patterns] : n \in 1..2}

Redacted == <<"[", "R", "E", "D", "A", "C", "T", "E", "D", "]">>

Replacements == {Redacted, <<"s", "s">>, <<"k">>}

FileNames == {"a.txt", "b.dat", ".git/config"}

InGit_NothingSkipped(name) == FALSE

\* os.walk drops the directory .git, so nothing under it is visited.
InGit(name) == name = ".git/config"

\* The working trees: a text file of any content, a file that is text or
\* cannot be decoded as UTF-8, and a file of the repository's metadata.
WorkingTrees ==
    {t \in [FileNames -> [decodable : BOOLEAN, content : Texts]] :
        /\ t["a.txt"].decodable
        /\ t["b.dat"].content = <<"s", "k">>
        /\ t[".git/config"] = [decodable |-> TRUE, content |-> <<"s">>]}

\* re.search(pattern, content) for a literal pattern: case matters.
Search(pattern, content) ==
    \E k \in 1..(Len(content) - Len(pattern) + 1) :
        SubSeq(content, k, k + Len(pattern) - 1) = pattern

\* re.sub(pattern, replacement, content) for a literal pattern: the matches
\* from left to right, none overlapping another.
RECURSIVE Sub(_, _, _)
Sub(pattern, replacement, content) ==
    IF Len(content) < Len(pattern) THEN content
    ELSE IF SubSeq(content, 1, Len(pattern)) = pattern
    THEN replacement
         \o Sub(pattern, replacement, SubSeq(content, Len(pattern) + 1, Len(content)))
    ELSE <<Head(content)>> \o Sub(pattern, replacement, Tail(content))

\* FileProcessor.scan_and_replace on one file: the file it leaves and the
\* value it returns. A file that cannot be decoded is skipped; the file is
\* written when some pattern was found.
ScanAndReplace(file, patterns, replacement) ==
    IF ~file.decodable
    THEN [file |-> file, returns |-> FALSE]
    ELSE LET F[k \in 0..Len(patterns)] ==
                 IF k = 0
                 THEN [content |-> file.content, modifications_made |-> FALSE]
                 ELSE IF Search(patterns[k], F[k-1].content)
                      THEN [content |-> Sub(patterns[k], replacement, F[k-1].content),
                            modifications_made |-> TRUE]
                      ELSE F[k-1]
             end == F[Len(patterns)]
         IN [file |-> IF end.modifications_made
                      THEN [file EXCEPT !.content = end.content]
                      ELSE file,
             returns |-> end.modifications_made]

\* FileProcessor.update_all_files: every file outside .git goes through
\* scan_and_replace; the count is the number of calls that returned True.
UpdateAllFiles(tree, patterns, replacement) ==
    LET visited == {f \in DOMAIN tree : ~InGit(f)}
        scan(f) == ScanAndReplace(tree[f], patterns, replacement)
    IN [files |-> [f \in DOMAIN tree |-> IF f \in visited THEN scan(f).file ELSE tree[f]],
        count |-> Cardinality({f \in visited : scan(f).returns})]

\* BackendController.clean_sensitive_data: update_all_files, then git add and
\* git commit when the count is greater than 0. The passes over one working
\* tree are made with the same patterns and replacement.
CleanSensitiveDataCall ==
    /\ Len(scrub_log) < MaxPasses
    /\ \E patterns \in PatternLists, replacement \in Replacements :
          LET res == UpdateAllFiles(files, patterns, replacement) IN
          /\ scrub_log # <<>> => /\ patterns = scrub_log[1].patterns
                                 /\ replacement = scrub_log[1].replacement
          /\ files' = res.files
          /\ scrub_log' = Append(scrub_log,
                                 [patterns |-> patterns, replacement |-> replacement,
                                  before |-> files, after |-> res.files,
                                  files_modified |-> res.count,
                                  commit |-> res.count > 0])

InitScrub ==
    /\ ToolsIdle
    /\ BatchIdle
    /\ RewriteIdle
    /\ TimelineIdle
    /\ GuiIdle
    /\ BranchesIdle
    /\ files \in WorkingTrees
    /\ scrub_log = <<>>

NextScrub ==
    CleanSensitiveDataCall /\ UNCHANGED outsideScrub

SpecScrub == InitScrub /\ [][NextScrub]_vars

----------------------------------------------------------------------------
(* Properties of process_batch *)

Range(f) == {f[k] : k \in DOMAIN f}

Returned == pc = "returned"

\* The steps called for an item, in the order they were called.
StepsOf(item) ==
    LET F[k \in 0..Len(executed)] ==
            IF k = 0 THEN <<>>
            ELSE IF executed[k][1] = item THEN Append(F[k-1], executed[k][2])
                 ELSE F[k-1]
    IN F[Len(executed)]

Count(seq, x) == Cardinality({k \in DOMAIN seq : seq[k] = x})

FaultsOf(item) == {f \in faults : f[1] = item}

AcquisitionFailed(item) == \E f \in FaultsOf(item) : f[2] = "initialize"

\* C1: process_batch returns exactly one result per submitted URL, in worklist
\* order, whatever steps raised: every item is acquired once, none is skipped
\* because an earlier one failed, and while the loop runs the results so far
\* are those of the items before the current one.
C1_OneResultPerItemInOrder ==
    /\ pc \notin {"idle", "returned"} =>
          /\ i \in 1..Len(repo_urls)
          /\ Len(batch_results) = i - 1
    /\ \A k \in 1..Len(batch_results) : batch_results[k].repo_url = repo_urls[k]
    /\ Returned =>
          /\ Len(batch_results) = Len(repo_urls)
          /\ \A k \in 1..Len(repo_urls) : Count(executed, <<k, "initialize">>) = 1

\* A two-item batch has returned; the first item raised, the second succeeded.
C1_Witness ==
    /\ Returned
    /\ Len(repo_urls) = 2
    /\ \E f \in FaultsOf(1) : batch_results[1].error # None
    /\ batch_results[2].success

PushFailed(item) ==
    \E f \in FaultsOf(item) :
        /\ f[2] = "setup_remote_and_push"
        /\ f[3] \in {"push_error_flag", "push_command_error", "push_raises"}

\* C3: an item whose push failed is reported with success = false and without
\* 'setup_remote_and_push' among its completed operations.
C3_PushFailureIsReported ==
    \A k \in 1..Len(batch_results) :
        PushFailed(k) =>
            /\ ~batch_results[k].success
            /\ "setup_remote_and_push" \notin Range(batch_results[k].operations_completed)

\* The place the specification gives each step in an item's life.
SpecRank(step) ==
    CASE step = "initialize"            -> 1
      [] step = "rewrite_history"       -> 2
      [] step = "clean_sensitive_data"  -> 3
      [] step = "rename_branches"       -> 4
      [] step = "setup_remote_and_push" -> 5
      [] step = "cleanup"               -> 6
      [] OTHER                          -> 5

\* C5: the steps that execute for an item do so in the order acquire,
\* rewrite, scrub, rename branches, publish, release.
C5_ScrubBeforeRename ==
    \A k \in 1..Len(repo_urls) :
        LET steps == StepsOf(k) IN
        \A a, b \in DOMAIN steps :
            a < b => SpecRank(steps[a]) <= SpecRank(steps[b])

\* C6: when the only faults of a batch are failed acquisitions, exactly the
\* items whose acquisition failed are reported success = false, with an error
\* and no completed operation, and every other item success = true.
C6_OnlyAcquisitionFailuresFail ==
    (\A f \in faults : f[2] = "initialize") =>
        \A k \in 1..Len(batch_results) :
            IF AcquisitionFailed(k)
            THEN /\ ~batch_results[k].success
                 /\ batch_results[k].error # None
                 /\ batch_results[k].operations_completed = <<>>
            ELSE /\ batch_results[k].success
                 /\ batch_results[k].error = None

\* A batch has returned whose first item could not be cloned and whose second
\* item completed at least one operation, with no other fault.
C6_Witness ==
    /\ Returned
    /\ Len(repo_urls) = 2
    /\ faults = {<<1, "initialize", "clone_raises">>}
    /\ batch_results[2].operations_completed # <<>>

RenameRejected(item) ==
    \E f \in FaultsOf(item) : f[2] = "rename_branches" /\ f[3] = "rejected"

\* C17: an item one of whose branch renames was rejected is reported with
\* success = false and without 'rename_branches' among its completed
\* operations, and neither scrub nor publish is called for it.
C17_RejectedRenameIsFatal ==
    \A k \in 1..Len(batch_results) :
        RenameRejected(k) =>
            /\ ~batch_results[k].success
            /\ "rename_branches" \notin Range(batch_results[k].operations_completed)
            /\ "clean_sensitive_data" \notin Range(StepsOf(k))
            /\ "setup_remote_and_push" \notin Range(StepsOf(k))


\* C24: for every item, clone is attempted at most once while the item is in
\* progress and exactly once when its result is recorded, push at most once,
\* cleanup once, and no call is made for an item after a call for a later
\* item.
C24_NothingRetried ==
    /\ \A k \in 1..Len(repo_urls) :
          /\ Count(executed, <<k, "initialize">>) <= 1
          /\ Count(executed, <<k, "push_changes">>) <= 1
          /\ k <= Len(batch_results) =>
                /\ Count(executed, <<k, "initialize">>) = 1
                /\ Count(executed, <<k, "cleanup">>) = 1
    /\ \A a, b \in DOMAIN executed : a < b => executed[a][1] <= executed[b][1]

\* A batch has returned whose first item's push failed and whose second item
\* could not be cloned.
C24_Witness ==
    /\ Returned
    /\ <<1, "setup_remote_and_push", "push_command_error">> \in faults
    /\ <<2, "initialize", "clone_raises">> \in faults

\* The outcomes of a step that are exceptions.
RaisingOutcomes == {"clone_raises", "info_raises", "raises", "provision_raises",
                    "configure_raises", "push_raises"}

\* The steps process_batch records as completed operations.
IsOperation(step) ==
    step \in {"rewrite_history", "rename_branches", "clean_sensitive_data",
              "setup_remote_and_push"}

OperationsRun(item) == SelectSeq(StepsOf(item), IsOperation)

\* C30: an item one of whose steps raised is reported with success = false
\* and the error set; the raising step is the last operation called for it,
\* and operations_completed lists the operations called before it, in the
\* order called. In every result success is true exactly when error is None.
C30_RaisedStepEndsItem ==
    \A k \in 1..Len(batch_results) :
        LET r == batch_results[k]
            ops == OperationsRun(k)
        IN /\ r.success <=> r.error = None
           /\ \A f \in FaultsOf(k) :
                 f[3] \in RaisingOutcomes =>
                    /\ ~r.success
                    /\ r.error # None
                    /\ IF f[2] = "initialize"
                       THEN ops = <<>> /\ r.operations_completed = <<>>
                       ELSE /\ ops # <<>>
                            /\ ops[Len(ops)] = f[2]
                            /\ r.operations_completed = SubSeq(ops, 1, Len(ops) - 1)
           /\ StepsOf(k)[Len(StepsOf(k))] = "cleanup"

\* A batch has returned with an item whose scrub raised after its rewrite and
\* its branch renames had completed.
C30_Witness ==
    /\ Returned
    /\ \E k \in 1..Len(batch_results) :
          /\ <<k, "clean_sensitive_data", "raises">> \in faults
          /\ batch_results[k].operations_completed
                = <<"rewrite_history", "rename_branches">>

----------------------------------------------------------------------------
(* Properties of update_commit_metadata *)

CallSucceeded == call.state = "returned"

IdentityGiven == Truthy(call.new_author) /\ Truthy(call.new_email)

GivenIdentity == [name |-> call.new_author, email |-> call.new_email]

DatesRandomized == new_dates.from = "randomized"

\* The commits of a repository made from an original commit.
CommitsOfSlot(rs, s) == {c \in AllCommits(rs) : c.slot = s}

\* The times the generated list holds, as written to the date map.
GeneratedTimes == {Strftime(new_dates.list[k]) : k \in DOMAIN new_dates.list}

\* C4: called with a new identity and a list whose length differs from the
\* commit count, update_commit_metadata fails and every ref points to the
\* commit it pointed to before the call.
C4_CountMismatchLeavesRefs ==
    (/\ call.state # "none"
     /\ IdentityGiven
     /\ new_dates.given
     /\ Len(new_dates.list) # Len(IterCommits(refs0)))
    => (call.state = "raised" /\ refs = refs0)

C8_EveryCommitGetsGeneratedTime ==
    (CallSucceeded /\ DatesRandomized) =>
        \A c \in AllCommits(refs) :
            /\ c.adate \in GeneratedTimes
            /\ c.cdate \in GeneratedTimes
            /\ c.adate # c.slot
            /\ c.cdate # c.slot

\* C9: after a successful rewrite with date randomization, an ancestor's
\* rewritten commit is not later than its descendant's.
C9_AncestorsNotLater ==
    (CallSucceeded /\ DatesRandomized) =>
        \A B \in AllCommits(refs0) : \A A \in Reachable(B) :
            \A a \in CommitsOfSlot(refs, A.slot), b \in CommitsOfSlot(refs, B.slot) :
                a.adate <= b.adate /\ a.cdate <= b.cdate

\* C10: after a successful rewrite with date randomization, the times applied
\* to the listed commits do not increase along the listing, newest first.
C10_NonIncreasingAlongListing ==
    (CallSucceeded /\ DatesRandomized) =>
        \A m, n \in DOMAIN call.commits :
            m < n =>
                \A a \in CommitsOfSlot(refs, call.commits[m]),
                   b \in CommitsOfSlot(refs, call.commits[n]) :
                    a.adate >= b.adate /\ a.cdate >= b.cdate

\* C13: called with a list whose length differs from the number of listed
\* commits, update_commit_metadata does not return success: it fails.
C13_CountMismatchIsRejected ==
    (/\ call.state # "none"
     /\ new_dates.given
     /\ Len(new_dates.list) # Len(IterCommits(refs0)))
    => call.state = "raised"

\* C14: when the call is over, whether the date pass succeeded or its tool
\* exited with a nonzero status, neither .git/date_map.txt nor
\* .git/change_dates.sh exists.
C14_ScratchFilesRemoved ==
    call.state # "none" => scratch = {}

\* Two listed commits whose ids start with the same seven characters.
PrefixCollision ==
    \E m, n \in DOMAIN call.commits :
        m # n /\ sha7[call.commits[m]] = sha7[call.commits[n]]

\* C15: when two listed commits share their 7-character id prefix, the date
\* rewrite either fails or gives every listed commit the time at its own
\* position of the list.
C15_CollisionNotSilentlyResolved ==
    (call.state # "none" /\ RunsDatePass(new_dates) /\ PrefixCollision) =>
        \/ call.state = "raised"
        \/ \A k \in DOMAIN call.commits :
              \A c \in CommitsOfSlot(refs, call.commits[k]) :
                  /\ c.adate = Strftime(new_dates.list[k])
                  /\ c.cdate = Strftime(new_dates.list[k])

----------------------------------------------------------------------------
(* Properties of randomize_commit_dates *)

TimelineOver == timeline.state \in {"returned", "raised"}

\* C11: for a commit count N >= 0 and an interval with start <= end,
\* randomize_commit_dates returns exactly N timestamps, each from start to
\* end, none later than the one before it.
C11_TimelineWithinIntervalAndSorted ==
    (TimelineOver /\ timeline.start_date <= timeline.end_date) =>
        LET d == timeline.random_dates IN
        /\ timeline.state = "returned"
        /\ Len(d) = timeline.num_commits
        /\ \A k \in DOMAIN d : timeline.start_date <= d[k] /\ d[k] <= timeline.end_date
        /\ \A a, b \in DOMAIN d : a < b => d[a] >= d[b]

\* A call for more than one commit and a proper interval has returned a list
\* whose first timestamp is later than its last.
C11_Witness ==
    /\ timeline.state = "returned"
    /\ timeline.num_commits > 1
    /\ timeline.start_date < timeline.end_date
    /\ timeline.random_dates[1] > timeline.random_dates[timeline.num_commits]

\* C12: called with end_date before start_date, randomize_commit_dates fails
\* and produces no timestamp.
C12_InvertedIntervalIsRejected ==
    (TimelineOver /\ timeline.end_date < timeline.start_date) =>
        /\ timeline.state = "raised"
        /\ timeline.random_dates = <<>>

----------------------------------------------------------------------------
(* Properties of the single-repository execute path *)

\* The run in progress cloned its repository.
SingleAcquired ==
    /\ <<runs, "initialize">> \in Range(executed)
    /\ \A f \in faults : f[2] # "initialize"

\* C16: when a single-repository run has ended, by success or by an
\* exception, the working copy it acquired is gone, and no working copy of an
\* earlier run exists when a run acquires its own.
C16_SingleRunReleasesWorkingCopy ==
    /\ (pc = "single_done" /\ SingleAcquired) => repo_path \notin disk
    /\ pc = "single_initialize" => disk = {}

----------------------------------------------------------------------------
(* Properties of rename_branch *)

\* A call that renames a branch to itself, names a branch that does not
\* exist, or names a target that is in use.
MustBeRejected(e) ==
    \/ e.old_name = e.new_name
    \/ e.old_name \notin DOMAIN e.before
    \/ e.new_name \in DOMAIN e.before

\* C18: rename_branch of a name to itself, of a branch that does not exist,
\* or to a name in use reports failure and leaves every branch name and the
\* commit it points to as they were; no call changes the number of branches.
C18_RejectedRenameChangesNothing ==
    \A k \in DOMAIN rename_log :
        LET e == rename_log[k] IN
        /\ MustBeRejected(e) => (e.returns = "False" /\ e.after = e.before)
        /\ Cardinality(DOMAIN e.after) = Cardinality(DOMAIN e.before)

\* rename_branch was called for an existing branch and a target name held by
\* a branch pointing to another commit.
C18_Witness ==
    \E k \in DOMAIN rename_log :
        LET e == rename_log[k] IN
        /\ e.old_name \in DOMAIN e.before
        /\ e.new_name \in DOMAIN e.before
        /\ e.old_name # e.new_name
        /\ e.before[e.old_name] # e.before[e.new_name]
        /\ e.returns = "False"

----------------------------------------------------------------------------
(* Properties of the content scrub *)

\* str.lower() on a text.
Lower(content) ==
    [k \in DOMAIN content |-> IF content[k] = "S" THEN "s" ELSE content[k]]

\* C19: after a scrub with replacement '[REDACTED]' and patterns given in
\* lowercase, no text file that was visited contains a pattern, whatever the
\* case of its letters.
C19_NoCaseInsensitiveOccurrence ==
    \A k \in DOMAIN scrub_log :
        LET e == scrub_log[k] IN
        e.replacement = Redacted =>
            \A f \in DOMAIN e.after :
                (e.after[f].decodable /\ ~InGit(f)) =>
                    \A j \in DOMAIN e.patterns :
                        ~Search(e.patterns[j], Lower(e.after[f].content))

\* C20: a scrub that follows a scrub with the same patterns and replacement
\* modifies no file, counts 0 and attempts no commit.
C20_SecondScrubChangesNothing ==
    \A k \in DOMAIN scrub_log :
        (/\ k > 1
         /\ scrub_log[k].patterns = scrub_log[k-1].patterns
         /\ scrub_log[k].replacement = scrub_log[k-1].replacement)
        => /\ scrub_log[k].files_modified = 0
           /\ scrub_log[k].after = scrub_log[k].before
           /\ ~scrub_log[k].commit

\* The files a pass must leave alone: those that cannot be decoded as text
\* and those under .git.
Untouchable(tree) == {f \in DOMAIN tree : ~tree[f].decodable \/ f = ".git/config"}

\* C21: a pass leaves every file that cannot be decoded as text and every
\* file under .git exactly as it was, and counts none of them: the count is
\* at most the number of the other files.
C21_BinaryAndMetadataUntouched ==
    \A k \in DOMAIN scrub_log :
        LET e == scrub_log[k] IN
        /\ \A f \in Untouchable(e.before) : e.after[f] = e.before[f]
        /\ e.files_modified <= Cardinality(DOMAIN e.before \ Untouchable(e.before))

\* A pass whose pattern occurs in the undecodable file and in the file under
\* .git has modified the text file.
C21_Witness ==
    \E k \in DOMAIN scrub_log :
        LET e == scrub_log[k] IN
        /\ ~e.before["b.dat"].decodable
        /\ \E j \in DOMAIN e.patterns :
              /\ Search(e.patterns[j], e.before["b.dat"].content)
              /\ Search(e.patterns[j], e.before[".git/config"].content)
        /\ e.after["a.txt"] # e.before["a.txt"]
        /\ e.files_modified = 1

\* The files whose content a pass changed.
Changed(e) == {f \in DOMAIN e.before : e.after[f] # e.before[f]}

\* C22: the count update_all_files returns is the number of files whose
\* content the pass changed, and a commit is attempted exactly when that
\* number is greater than 0.
C22_CountIsChangedFiles ==
    \A k \in DOMAIN scrub_log :
        LET e == scrub_log[k] IN
        /\ e.files_modified = Cardinality(Changed(e))
        /\ e.commit <=> Cardinality(Changed(e)) > 0

----------------------------------------------------------------------------
(* SpecRemotes: add_remote and set_remote_url on the remotes of a          *)
(* repository                                                              *)

RemoteNames == {"origin", "upstream"}

RemoteUrls == {"src", "dest", "fork"}

\* The remotes a repository can have when the manager is built: any of the
\* names, each with one URL; none after git init.
RemoteSets == UNION {[ns -> RemoteUrls] : ns \in SUBSET RemoteNames}

\* What a git command that changes the configuration can do.
RemoteOutcomes == {"ok", "raises"}

\* The number of calls made on the manager.
MaxRemoteCalls == 2

\* set_remote_url: False when the remote is missing, else git sets the URL
\* of that remote; a failure of the command is raised again.
SetRemoteUrl(rs, remote_name, new_url, outcome) ==
    IF remote_name \notin DOMAIN rs
        THEN [remotes |-> rs, returns |-> "False"]
    ELSE IF outcome = "raises"
        THEN [remotes |-> rs, returns |-> "raises"]
    ELSE [remotes |-> [rs EXCEPT ![remote_name] = new_url], returns |-> "True"]

\* add_remote that answers True for a remote that exists and leaves its URL.
AddRemote_KeepsExisting(rs, remote_name, remote_url, outcome) ==
    IF remote_name \in DOMAIN rs
        THEN [remotes |-> rs, returns |-> "True"]
    ELSE IF outcome = "raises"
        THEN [remotes |-> rs, returns |-> "raises"]
    ELSE [remotes |-> [n \in DOMAIN rs \cup {remote_name} |->
                          IF n = remote_name THEN remote_url ELSE rs[n]],
          returns |-> "True"]

\* add_remote: a remote that exists gets its URL set by set_remote_url, a
\* new one is created; a failure of the command is raised again.
AddRemote(rs, remote_name, remote_url, outcome) ==
    IF remote_name \in DOMAIN rs
        THEN SetRemoteUrl(rs, remote_name, remote_url, outcome)
    ELSE IF outcome = "raises"
        THEN [remotes |-> rs, returns |-> "raises"]
    ELSE [remotes |-> [n \in DOMAIN rs \cup {remote_name} |->
                          IF n = remote_name THEN remote_url ELSE rs[n]],
          returns |-> "True"]

\* The record of one call.
RemoteEntry(op, name, url, before, r) ==
    [op |-> op, name |-> name, url |-> url, before |-> before,
     after |-> r.remotes, returns |-> r.returns]

AddRemoteCall ==
    /\ Len(remote_log) < MaxRemoteCalls
    /\ \E name \in RemoteNames, url \in RemoteUrls, outcome \in RemoteOutcomes :
          LET r == AddRemote(remotes, name, url, outcome) IN
          /\ remotes' = r.remotes
          /\ remote_log' = Append(remote_log,
                                  RemoteEntry("add_remote", name, url, remotes, r))

SetRemoteUrlCall ==
    /\ Len(remote_log) < MaxRemoteCalls
    /\ \E name \in RemoteNames, url \in RemoteUrls, outcome \in RemoteOutcomes :
          LET r == SetRemoteUrl(remotes, name, url, outcome) IN
          /\ remotes' = r.remotes
          /\ remote_log' = Append(remote_log,
                                  RemoteEntry("set_remote_url", name, url, remotes, r))

InitRemotes ==
    /\ WindowIdle
    /\ BatchIdle
    /\ RewriteIdle
    /\ TimelineIdle
    /\ GuiIdle
    /\ BranchesIdle
    /\ ScrubIdle
    /\ LoggingIdle
    /\ FindIdle
    /\ remotes \in RemoteSets
    /\ remote_log = <<>>

NextRemotes ==
    \/ AddRemoteCall /\ UNCHANGED outsideRemotes
    \/ SetRemoteUrlCall /\ UNCHANGED outsideRemotes

SpecRemotes == InitRemotes /\ [][NextRemotes]_vars

----------------------------------------------------------------------------
(* Properties of add_remote *)

\* C23: after add_remote(name, url) returns, it has answered True and the
\* remote name exists with the URL url, whether name existed before or not;
\* the remotes are those there were before and name, and every other remote
\* has the URL it had.
C23_AddRemoteSetsUrl ==
    \A k \in DOMAIN remote_log :
        LET e == remote_log[k] IN
        (e.op = "add_remote" /\ e.returns # "raises")
        => /\ e.returns = "True"
           /\ e.name \in DOMAIN e.after
           /\ e.after[e.name] = e.url
           /\ DOMAIN e.after = DOMAIN e.before \cup {e.name}
           /\ \A n \in DOMAIN e.before \ {e.name} : e.after[n] = e.before[n]

\* add_remote has returned for a remote that existed with another URL, next
\* to a second remote, and for a remote that did not exist.
C23_Witness ==
    /\ \E k \in DOMAIN remote_log :
          LET e == remote_log[k] IN
          /\ e.op = "add_remote"
          /\ e.returns = "True"
          /\ e.name \in DOMAIN e.before
          /\ e.before[e.name] # e.url
          /\ DOMAIN e.before # {e.name}
    /\ \E k \in DOMAIN remote_log :
          LET e == remote_log[k] IN
          /\ e.op = "add_remote"
          /\ e.returns = "True"
          /\ e.name \notin DOMAIN e.before

----------------------------------------------------------------------------
(* SpecLogging: log_event, retrieve_logs and clear_logs on a LoggingModule *)

\* Texts are sequences of characters; an event type is written here as one
\* character that stands for the word.
EventTypes == {<<"INFO">>, <<"ERROR">>}

Messages == {<<>>, <<"m">>, <<"m", "n">>}

\* The number of calls made on the module.
MaxLogCalls == 3

\* now.isoformat(): the text of a time, one text per tick.
IsoFormat(now) ==
    <<"t0", "t1", "t2", "t3", "t4", "t5", "t6", "t7", "t8", "t9">>[now + 1]

\* f"{now.isoformat()} - {event_type} - {message}"
LogEntry(now, event_type, message) ==
    <<IsoFormat(now)>> \o <<" - ">> \o event_type \o <<" - ">> \o message

\* log_event that puts the entry in front of the list.
LogEvent_Prepends(l, now, event_type, message) ==
    <<LogEntry(now, event_type, message)>> \o l

\* log_event: the entry is appended to self.logs.
LogEvent(l, now, event_type, message) ==
    Append(l, LogEntry(now, event_type, message))

\* Nothing has been retrieved.
NoRetrieved == [state |-> "none", logs |-> <<>>, at |-> 0]

\* datetime.datetime.now() at a call: the clock has not gone back.
LogEventCall ==
    /\ Len(log_calls) < MaxLogCalls
    /\ \E event_type \in EventTypes, message \in Messages, now \in {clock, clock + 1} :
          /\ clock' = now
          /\ logs' = LogEvent(logs, now, event_type, message)
          /\ log_calls' = Append(log_calls, [op |-> "log_event",
                                             event_type |-> event_type,
                                             message |-> message])
    /\ UNCHANGED retrieved

\* retrieve_logs: returns self.logs.
RetrieveLogsCall ==
    /\ Len(log_calls) < MaxLogCalls
    /\ log_calls' = Append(log_calls, [op |-> "retrieve_logs",
                                       event_type |-> <<>>, message |-> <<>>])
    /\ retrieved' = [state |-> "returned", logs |-> logs, at |-> Len(log_calls')]
    /\ UNCHANGED <<logs, clock>>

\* clear_logs: self.logs is a new empty list.
ClearLogsCall ==
    /\ Len(log_calls) < MaxLogCalls
    /\ logs' = <<>>
    /\ log_calls' = Append(log_calls, [op |-> "clear_logs",
                                       event_type |-> <<>>, message |-> <<>>])
    /\ UNCHANGED <<clock, retrieved>>

InitLogging ==
    /\ WindowIdle
    /\ BatchIdle
    /\ RewriteIdle
    /\ TimelineIdle
    /\ GuiIdle
    /\ BranchesIdle
    /\ ScrubIdle
    /\ RemotesIdle
    /\ FindIdle
    /\ logs = <<>>
    /\ clock = 0
    /\ log_calls = <<>>
    /\ retrieved = NoRetrieved

NextLogging ==
    \/ LogEventCall /\ UNCHANGED outsideLogging
    \/ RetrieveLogsCall /\ UNCHANGED outsideLogging
    \/ ClearLogsCall /\ UNCHANGED outsideLogging

SpecLogging == InitLogging /\ [][NextLogging]_vars

----------------------------------------------------------------------------
(* Properties of LoggingModule *)

\* The position of the last clear_logs among the calls, 0 when there is none.
LastClear(calls) ==
    IF \E k \in DOMAIN calls : calls[k].op = "clear_logs"
    THEN CHOOSE k \in DOMAIN calls :
            /\ calls[k].op = "clear_logs"
            /\ \A j \in DOMAIN calls : calls[j].op = "clear_logs" => j <= k
    ELSE 0

IsLogEvent(c) == c.op = "log_event"

\* The log_event calls made since the last clear_logs, in call order.
SinceClear(calls) ==
    SelectSeq(SubSeq(calls, LastClear(calls) + 1, Len(calls)), IsLogEvent)

\* C29: retrieve_logs returns one entry for every log_event made since the
\* last clear_logs (or since construction), in call order, each entry
\* containing the event type and the message of its call; right after
\* clear_logs it returns the empty list.
C29_RetrieveLogsSinceClear ==
    retrieved.state = "returned" =>
        LET before == SubSeq(log_calls, 1, retrieved.at - 1)
            expected == SinceClear(before)
        IN /\ Len(retrieved.logs) = Len(expected)
           /\ \A j \in DOMAIN expected :
                 /\ Search(expected[j].event_type, retrieved.logs[j])
                 /\ Search(expected[j].message, retrieved.logs[j])
           /\ (before # <<>> /\ before[Len(before)].op = "clear_logs")
                 => retrieved.logs = <<>>

\* retrieve_logs has returned two entries of different event types.
C29_Witness ==
    /\ retrieved.state = "returned"
    /\ Len(retrieved.logs) = 2
    /\ Search(<<"INFO">>, retrieved.logs[1])
    /\ Search(<<"ERROR">>, retrieved.logs[2])

\* retrieve_logs has returned right after a clear_logs that followed a
\* log_event.
C29_WitnessCleared ==
    /\ retrieved.state = "returned"
    /\ retrieved.at = 3
    /\ log_calls[1].op = "log_event"
    /\ log_calls[2].op = "clear_logs"
    /\ retrieved.logs = <<>>

----------------------------------------------------------------------------
(* SpecFind: one call of find_sensitive_files on a working tree *)

\* A file name is a sequence of pieces, each piece a run of characters that
\* the names below share or differ in as a whole.
FilePaths ==
    {[dir |-> ".",    file |-> <<"LICENSE">>],
     [dir |-> ".",    file |-> <<"CODE", "_", "OF", "_", "CONDUCT", ".md">>],
     [dir |-> ".",    file |-> <<"main", ".py">>],
     [dir |-> ".git", file |-> <<"readme">>],
     [dir |-> "docs", file |-> <<"Code", " ", "of", " ", "Conduct", ".txt">>],
     [dir |-> "docs", file |-> <<"AUTHOR", "S", ".txt">>],
     [dir |-> "docs", file |-> <<"LICENSE">>]}

\* str.lower() on one piece.
LowerPiece(p) ==
    CASE p = "LICENSE" -> "license"
      [] p = "CODE"    -> "code"
      [] p = "Code"    -> "code"
      [] p = "OF"      -> "of"
      [] p = "CONDUCT" -> "conduct"
      [] p = "Conduct" -> "conduct"
      [] p = "AUTHOR"  -> "author"
      [] p = "S"       -> "s"
      [] OTHER         -> p

\* file.lower()
FileLower(file) == [k \in DOMAIN file |-> LowerPiece(file[k])]

\* The patterns of find_sensitive_files, in the order of the list.
SensitivePatterns ==
    << <<"license">>, <<"copyright">>, <<"author">>, <<"contributor">>,
       <<"readme">>, <<"changelog">>, <<"author", "s">>, <<"contributor", "s">>,
       <<"maintainers">>, <<"codeowners">>,
       <<"code", " ", "of", " ", "conduct">>, <<"governance">> >>

\* The inner loop: the path is appended at the first pattern found in the
\* lowercased name, and the loop is left.
RECURSIVE AppendsFor(_, _)
AppendsFor(path, patterns) ==
    IF patterns = <<>> THEN <<>>
    ELSE IF Search(Head(patterns), FileLower(path.file)) THEN <<path>>
    ELSE AppendsFor(path, Tail(patterns))

\* The loop over the files in the order os.walk hands them out.
RECURSIVE FindSensitiveFiles(_)
FindSensitiveFiles(walk) ==
    IF walk = <<>> THEN <<>>
    ELSE AppendsFor(Head(walk), SensitivePatterns) \o FindSensitiveFiles(Tail(walk))

\* The orders in which a directory can list its files.
Listings(fs) ==
    {l \in [1..Cardinality(fs) -> fs] : \A a, b \in DOMAIN l : a # b => l[a] # l[b]}

\* os.walk from the root, '.git' taken out of the directories to descend
\* into: the files of the root, then those of docs.
Walks(t) ==
    {top \o sub : top \in Listings({f \in t : f.dir = "."}),
                  sub \in Listings({f \in t : f.dir = "docs"})}

NoFound == [state |-> "none", returns |-> <<>>]

FindSensitiveFilesCall ==
    /\ found.state = "none"
    /\ \E walk \in Walks(worktree) :
          found' = [state |-> "returned", returns |-> FindSensitiveFiles(walk)]
    /\ UNCHANGED worktree

InitFind ==
    /\ WindowIdle
    /\ BatchIdle
    /\ RewriteIdle
    /\ TimelineIdle
    /\ GuiIdle
    /\ BranchesIdle
    /\ ScrubIdle
    /\ RemotesIdle
    /\ LoggingIdle
    /\ worktree \in SUBSET FilePaths
    /\ found = NoFound

NextFind ==
    FindSensitiveFilesCall /\ UNCHANGED outsideFind

SpecFind == InitFind /\ [][NextFind]_vars

----------------------------------------------------------------------------
(* Properties of find_sensitive_files *)

\* The vocabulary of sensitivity-indicator substrings.
Vocabulary ==
    {<<"license">>, <<"copyright">>, <<"author">>, <<"contributor">>,
     <<"readme">>, <<"changelog">>, <<"maintainers">>, <<"codeowners">>,
     <<"governance">>, <<"conduct">>}

\* The files the scan is to report.
Indicated(t) ==
    {f \in t : /\ f.dir # ".git"
               /\ \E v \in Vocabulary : Search(v, FileLower(f.file))}

\* C27: find_sensitive_files returns, each once, the files outside .git
\* whose lowercased name contains a word of the vocabulary (license,
\* copyright, author, contributor, readme, changelog, maintainers,
\* codeowners, governance, conduct), and no other file.
C27_ReportsVocabularyNames ==
    found.state = "returned" =>
        /\ {found.returns[k] : k \in DOMAIN found.returns} = Indicated(worktree)
        /\ Len(found.returns) = Cardinality(Indicated(worktree))

----------------------------------------------------------------------------
(* SpecWindow: the window, its buttons, the worker thread and its callbacks *)

\* The widgets of the window: the four buttons of the button frame, the
\* Browse button and an entry field.
WidgetKinds ==
    [n \in {"Preview Changes", "Execute", "Clear Log", "Exit", "Browse",
            "repo_url"} |-> IF n = "repo_url" THEN "Entry" ELSE "Button"]

\* if isinstance(widget, ttk.Button): widget.state(['disabled'])
DisableWidgetsRecursive_SkipsExecute(ws) ==
    [n \in DOMAIN ws |->
        IF WidgetKinds[n] = "Button" /\ n # "Execute" THEN "disabled" ELSE ws[n]]

DisableWidgetsRecursive(ws) ==
    [n \in DOMAIN ws |-> IF WidgetKinds[n] = "Button" THEN "disabled" ELSE ws[n]]

\* if isinstance(widget, ttk.Button): widget.state(['!disabled'])
EnableWidgetsRecursive(ws) ==
    [n \in DOMAIN ws |-> IF WidgetKinds[n] = "Button" THEN "normal" ELSE ws[n]]

\* The values the fields of the single-repository tab hold when they are read.
WindowInputs ==
    {f \in GuiInputs : /\ f.branch_mapping = "{}"
                       /\ ~f.remove_sensitive_data
                       /\ f.remote_url = ""
                       /\ f.github_token = ""}

\* The text of the URL area of the batch tab, as _parse_batch_repo_urls
\* reads it.
BatchUrlFields == {<<>>, <<"u1">>, <<"u1", "u2">>}

\* The operations dictionary the batch thread builds from the fields of the
\* batch tab: the keys it leaves out are None here.
BatchOperationFields ==
    {o \in OperationsSet : /\ (o.new_author = None) = (o.new_email = None)
                           /\ ~o.randomize_dates
                           /\ o.branch_mapping = "{}"
                           /\ o.patterns = "[]"
                           /\ o.replacement = ""
                           /\ o.remote_url = None
                           /\ o.token = None
                           /\ o.repo_name_template = None}

\* A callback handed to root.after(0, ...).
Callback(do, message) == [do |-> do, message |-> message]

UpdateLog(message) == Callback("_update_log", message)

ShowBox(message) == Callback("messagebox", message)

\* The positions at which a worker thread has ended.
ThreadEnded == {"single_done", "batch_done"}

\* Execute: _disable_buttons(), then the thread of the selected tab is
\* started.
ExecuteChanges ==
    /\ window = "open"
    /\ widgets["Execute"] = "normal"
    /\ runs < MaxRuns
    /\ widgets' = DisableWidgetsRecursive(widgets)
    /\ threads' = threads + 1
    /\ \E current_tab \in {0, 1} :
          pc' = IF current_tab = 0 THEN "single_thread" ELSE "batch_thread"
    /\ handler' = "_execute_changes"
    /\ UNCHANGED <<repo_urls, operations, i, result, batch_results, batch_mode,
                   repo_handler, repo_path, modules_path, disk, next_dir,
                   executed, faults, gui, runs, window, pending, log_text>>

\* A worker thread without its finally clause.
Worker_NoFinally(step, callbacks) ==
    /\ window = "open"
    /\ step
    /\ pending' = pending \o callbacks
    /\ threads' = IF pc' \in ThreadEnded THEN threads - 1 ELSE threads
    /\ handler' = "worker"
    /\ UNCHANGED <<widgets, window, log_text>>

\* A step of a worker thread: what it does to the controller, the callbacks
\* it schedules, and, when it was the last one, the finally clause, which
\* schedules _enable_buttons before the thread ends.
Worker(step, callbacks) ==
    /\ window = "open"
    /\ step
    /\ pending' = pending \o callbacks
                  \o (IF pc' \in ThreadEnded
                      THEN <<Callback("_enable_buttons", "")>> ELSE <<>>)
    /\ threads' = IF pc' \in ThreadEnded THEN threads - 1 ELSE threads
    /\ handler' = "worker"
    /\ UNCHANGED <<widgets, window, log_text>>

\* The messages of the steps of _execute_single_repo_thread: the one before
\* the call and the one after it.
StepTexts ==
    [single_initialize |-> <<"Cloning repository", "Repository cloned successfully">>,
     single_rewrite_history |-> <<"Rewriting commit history...",
                                  "Commit history rewritten successfully">>,
     single_rename_branches |-> <<"Renaming branches...",
                                  "Branches renamed successfully">>,
     single_clean_sensitive_data |-> <<"Removing sensitive data...",
                                       "Sensitive data removed successfully">>,
     single_setup_remote_and_push |-> <<"Setting up remote repository...",
                                        "Changes pushed to remote repository successfully">>]

\* The callbacks a step of the single-repository thread schedules: none when
\* the step is passed over, the error report when it raised.
SingleStepCallbacks ==
    LET called == Len(executed') > Len(executed)
        raised == pc' = "single_done"
    IN (IF called THEN <<UpdateLog(StepTexts[pc][1])>> ELSE <<>>)
       \o (IF raised
           THEN <<UpdateLog("Error during execution"), ShowBox("Error during execution")>>
           ELSE IF called THEN <<UpdateLog(StepTexts[pc][2])>> ELSE <<>>)

\* The thread schedules _clear_log and reads the URL; without one it asks
\* for it and returns.
SingleThreadStart ==
    Worker(ExecuteSingleFrom({"single_thread"}, WindowInputs),
           <<Callback("_clear_log", "")>>
           \o (IF pc' = "single_done"
               THEN <<ShowBox("Please enter a repository URL")>> ELSE <<>>))

WindowSingleInitialize == Worker(SingleInitialize, SingleStepCallbacks)

WindowSingleRewriteHistory == Worker(SingleRewriteHistory, SingleStepCallbacks)

WindowSingleRenameBranches == Worker(SingleRenameBranches, SingleStepCallbacks)

WindowSingleCleanSensitiveData == Worker(SingleCleanSensitiveData, SingleStepCallbacks)

WindowSinglePublish == Worker(SinglePublish, SingleStepCallbacks)

WindowSingleCleanup ==
    Worker(SingleCleanup,
           <<UpdateLog("Process completed successfully!"), ShowBox("Success")>>)

\* _execute_batch_repos_thread up to the first item of process_batch.
BatchThreadStart ==
    Worker(/\ runs < MaxRuns
           /\ runs' = runs + 1
           /\ gui' = gui
           /\ IF repo_urls = <<>>
              THEN /\ pc = "batch_thread"
                   /\ pc' = "batch_done"
                   /\ UNCHANGED <<repo_urls, operations, i, result, batch_results,
                                  batch_mode, repo_handler, repo_path, modules_path,
                                  disk, next_dir, executed, faults>>
              ELSE ProcessBatchFrom("batch_thread"),
           <<Callback("_clear_log", "")>>
           \o (IF repo_urls = <<>>
               THEN <<ShowBox("Please enter at least one repository URL")>>
               ELSE <<UpdateLog("Starting batch processing")>>))

\* A step of process_batch within the batch thread.
BatchStep(step) == Worker(step /\ UNCHANGED <<gui, runs>>, <<>>)

\* The report of one result.
RECURSIVE ResultLines(_)
ResultLines(results) ==
    IF results = <<>> THEN <<>>
    ELSE <<UpdateLog(IF Head(results).success THEN "Success" ELSE "Failed")>>
         \o ResultLines(Tail(results))

\* process_batch has returned: the results are reported and the thread ends.
BatchThreadEnd ==
    Worker(/\ pc = "returned"
           /\ pc' = "batch_done"
           /\ UNCHANGED <<repo_urls, operations, i, result, batch_results,
                          batch_mode, repo_handler, repo_path, modules_path,
                          disk, next_dir, executed, faults, gui, runs>>,
           <<UpdateLog("Batch processing complete")>>
           \o ResultLines(batch_results)
           \o <<ShowBox("Batch Processing Complete")>>)

\* The event loop runs the callback scheduled first.
RunCallback ==
    /\ window = "open"
    /\ pending # <<>>
    /\ LET callback == Head(pending) IN
       /\ pending' = Tail(pending)
       /\ log_text' = CASE callback.do = "_clear_log" -> <<>>
                        [] callback.do = "_update_log" -> Append(log_text, callback.message)
                        [] OTHER -> log_text
       /\ widgets' = IF callback.do = "_enable_buttons"
                     THEN EnableWidgetsRecursive(widgets) ELSE widgets
    /\ handler' = "after"
    /\ UNCHANGED <<batchVars, gui, runs, window, threads>>

\* _preview_single_repo: the lines it writes for the values of the fields.
PreviewSingleRepo(inputs, randomize_dates) ==
    IF ~Truthy(inputs.repo_url) THEN <<>>
    ELSE <<"Preview for repository">>
         \o (IF Truthy(inputs.author_name) /\ Truthy(inputs.author_email)
             THEN <<"Author will be changed">> ELSE <<>>)
         \o (IF randomize_dates THEN <<"Commit dates will be randomized">> ELSE <<>>)
         \o (IF Truthy(inputs.branch_mapping)
             THEN <<"Branches will be renamed:", "  old -> new">> ELSE <<>>)
         \o (IF Truthy(inputs.remote_url) THEN <<"Repository will be pushed">>
             ELSE IF Truthy(inputs.github_token) /\ Truthy(inputs.repo_name)
             THEN <<"A new repository will be created">> ELSE <<>>)
         \o (IF inputs.remove_sensitive_data
             THEN <<"Sensitive data will be removed", "Replacement text">> ELSE <<>>)
         \o <<"Preview generation complete">>

\* _preview_batch_repos: the lines it writes for the fields of the batch tab.
PreviewBatchRepos(urls, ops) ==
    IF urls = <<>> THEN <<>>
    ELSE <<"Preview for batch processing">>
         \o (IF Truthy(ops.new_author) /\ Truthy(ops.new_email)
             THEN <<"Author will be changed">> ELSE <<>>)
         \o (IF ops.randomize_dates THEN <<"Commit dates will be randomized">> ELSE <<>>)
         \o (IF Truthy(ops.patterns)
             THEN <<"Sensitive data will be removed", "Replacement text">> ELSE <<>>)
         \o (IF Truthy(ops.token) /\ Truthy(ops.repo_name_template)
             THEN <<"New repositories will be created", "Example repository names:">>
             ELSE <<>>)
         \o <<"Preview generation complete">>

\* Preview Changes: the log is cleared and the preview of the selected tab
\* is written to it.
PreviewChanges_Initializes ==
    /\ window = "open"
    /\ widgets["Preview Changes"] = "normal"
    /\ repo_handler' = [temp_dir |-> next_dir, repo |-> "u1", exists |-> TRUE]
    /\ next_dir' = next_dir + 1
    /\ disk' = disk \cup {next_dir}
    /\ log_text' = <<"Preview for repository">>
    /\ handler' = "_preview_changes"
    /\ UNCHANGED <<repo_urls, operations, pc, i, result, batch_results, batch_mode,
                   repo_path, modules_path, executed, faults,
                   gui, runs, widgets, window, threads, pending>>

PreviewChanges ==
    /\ window = "open"
    /\ widgets["Preview Changes"] = "normal"
    /\ \E current_tab \in {0, 1}, inputs \in WindowInputs, randomize_dates \in BOOLEAN :
          log_text' = IF current_tab = 0
                      THEN PreviewSingleRepo(inputs, randomize_dates)
                      ELSE PreviewBatchRepos(repo_urls, operations)
    /\ handler' = "_preview_changes"
    /\ UNCHANGED <<batchVars, gui, runs, widgets, window, threads, pending>>

\* Clear Log: _clear_log.
ClearLog ==
    /\ window = "open"
    /\ widgets["Clear Log"] = "normal"
    /\ log_text' = <<>>
    /\ handler' = "_clear_log"
    /\ UNCHANGED <<batchVars, gui, runs, widgets, window, threads, pending>>

\* _on_close, the command of the Exit button and the handler of
\* WM_DELETE_WINDOW: the controller's cleanup, then root.destroy(), which
\* ends the main loop and with it the program.
OnClose ==
    /\ window = "open"
    /\ \E by \in {"Exit", "WM_DELETE_WINDOW"} :
          by = "Exit" => widgets["Exit"] = "normal"
    /\ disk' = ControllerCleanup(repo_handler, disk)
    /\ window' = "destroyed"
    /\ handler' = "_on_close"
    /\ UNCHANGED <<repo_urls, operations, pc, i, result, batch_results, batch_mode,
                   repo_handler, repo_path, modules_path, next_dir, executed,
                   faults, gui, runs, widgets, threads, pending, log_text>>

\* The window as RepoRewriteGUI.__init__ leaves it, with some text in the
\* fields of the batch tab.
InitWindow ==
    /\ repo_urls \in BatchUrlFields
    /\ operations \in BatchOperationFields
    /\ pc = "idle"
    /\ i = 0
    /\ result = FreshResult(None)
    /\ batch_results = <<>>
    /\ batch_mode = FALSE
    /\ repo_handler = NoHandler
    /\ repo_path = NoDir
    /\ modules_path = NoDir
    /\ disk = {}
    /\ next_dir = 1
    /\ executed = <<>>
    /\ faults = {}
    /\ GuiIdle
    /\ RewriteIdle
    /\ TimelineIdle
    /\ BranchesIdle
    /\ ScrubIdle
    /\ RemotesIdle
    /\ LoggingIdle
    /\ FindIdle
    /\ widgets = [n \in DOMAIN WidgetKinds |-> "normal"]
    /\ window = "open"
    /\ threads = 0
    /\ pending = <<>>
    /\ log_text = <<"Welcome">>
    /\ handler = "__init__"

NextWindow ==
    \/ ExecuteChanges /\ UNCHANGED outsideWindow
    \/ SingleThreadStart /\ UNCHANGED outsideWindow
    \/ WindowSingleInitialize /\ UNCHANGED outsideWindow
    \/ WindowSingleRewriteHistory /\ UNCHANGED outsideWindow
    \/ WindowSingleRenameBranches /\ UNCHANGED outsideWindow
    \/ WindowSingleCleanSensitiveData /\ UNCHANGED outsideWindow
    \/ WindowSinglePublish /\ UNCHANGED outsideWindow
    \/ WindowSingleCleanup /\ UNCHANGED outsideWindow
    \/ BatchThreadStart /\ UNCHANGED outsideWindow
    \/ BatchStep(Initialize) /\ UNCHANGED outsideWindow
    \/ BatchStep(RewriteHistory) /\ UNCHANGED outsideWindow
    \/ BatchStep(RenameBranchesStep) /\ UNCHANGED outsideWindow
    \/ BatchStep(CleanSensitiveData) /\ UNCHANGED outsideWindow
    \/ BatchStep(Publish) /\ UNCHANGED outsideWindow
    \/ BatchStep(Release) /\ UNCHANGED outsideWindow
    \/ BatchThreadEnd /\ UNCHANGED outsideWindow
    \/ RunCallback /\ UNCHANGED outsideWindow
    \/ PreviewChanges /\ UNCHANGED outsideWindow
    \/ ClearLog /\ UNCHANGED outsideWindow
    \/ OnClose /\ UNCHANGED outsideWindow

SpecWindow == InitWindow /\ [][NextWindow]_vars

\* The steps of the worker threads.
WorkerNext ==
    \/ SingleThreadStart
    \/ WindowSingleInitialize
    \/ WindowSingleRewriteHistory
    \/ WindowSingleRenameBranches
    \/ WindowSingleCleanSensitiveData
    \/ WindowSinglePublish
    \/ WindowSingleCleanup
    \/ BatchThreadStart
    \/ BatchStep(Initialize)
    \/ BatchStep(RewriteHistory)
    \/ BatchStep(RenameBranchesStep)
    \/ BatchStep(CleanSensitiveData)
    \/ BatchStep(Publish)
    \/ BatchStep(Release)
    \/ BatchThreadEnd

\* The window when every step of a pipeline ends and the event loop keeps
\* running its callbacks.
SpecWindowFair ==
    /\ SpecWindow
    /\ WF_vars(WorkerNext /\ UNCHANGED outsideWindow)
    /\ WF_vars(RunCallback /\ UNCHANGED outsideWindow)

----------------------------------------------------------------------------
(* Properties of the window *)

\* C25: at most one worker thread runs, and while one runs every button of
\* the window is disabled, Execute among them.
C25_OneWorkerThread ==
    /\ threads <= 1
    /\ threads > 0 =>
          \A n \in DOMAIN widgets : WidgetKinds[n] = "Button" => widgets[n] = "disabled"

\* A second run is in progress: the buttons were enabled again after the
\* first one and Execute was pressed once more.
C25_Witness ==
    /\ runs = 2
    /\ threads = 1
    /\ pc \in {"single_rewrite_history", "rewrite_history"}
    /\ widgets["Execute"] = "disabled"

\* The positions at which a pipeline has acquired its working copy and has
\* not yet released it.
HoldsWorkingCopy ==
    pc \in {"single_rewrite_history", "single_rename_branches",
            "single_clean_sensitive_data", "single_setup_remote_and_push",
            "single_cleanup", "rewrite_history", "rename_branches",
            "clean_sensitive_data", "setup_remote_and_push", "finally"}

\* C26: while a worker thread is at a step of its pipeline, the temporary
\* directory of its working copy exists: nothing but the pipeline's own
\* cleanup, after its steps, removes it.
C26_WorkingCopyOwned ==
    (threads > 0 /\ HoldsWorkingCopy /\ repo_handler.temp_dir # NoDir)
        => repo_handler.temp_dir \in disk

\* C28: a step of Preview Changes leaves the controller, the directories on
\* disk, the fields read by a run, the buttons, the threads and the
\* scheduled callbacks as they were; only the on-screen log changes.
C28_PreviewOnlyWritesLog ==
    [][handler' = "_preview_changes"
        => UNCHANGED <<batchVars, gui, runs, widgets, window, threads, pending>>]_vars

\* Preview Changes has written a preview after a run that left a handler.
C28_Witness ==
    /\ handler = "_preview_changes"
    /\ log_text # <<>>
    /\ repo_handler.exists
    /\ runs > 0

----------------------------------------------------------------------------
(* Properties of rename_branches and of sequences of rename_branch *)

\* The log is that of a mapping of two pairs handed to rename_branch one
\* after the other, none raising: the old names differ and exist at the
\* start, the new names differ, and no pair names a branch for itself.
TwoPairMapping ==
    /\ Len(rename_log) = 2
    /\ \A k \in 1..2 : /\ rename_log[k].returns # "raise"
                       /\ rename_log[k].old_name # rename_log[k].new_name
                       /\ rename_log[k].old_name \in DOMAIN rename_log[1].before
    /\ rename_log[1].old_name # rename_log[2].old_name
    /\ rename_log[1].new_name # rename_log[2].new_name

\* C31: after a mapping with distinct new names and existing old names has
\* been applied, chains and swaps included, every branch that was named old
\* is known by its new name: the new name points where old pointed.
C31_MappingApplied ==
    TwoPairMapping =>
        \A k \in 1..2 :
            /\ rename_log[k].new_name \in DOMAIN branches
            /\ branches[rename_log[k].new_name]
                  = rename_log[1].before[rename_log[k].old_name]

\* The number of branches of bs that point to the commit t.
PointingTo(bs, t) == Cardinality({b \in DOMAIN bs : bs[b] = t})

\* C37: after any sequence of rename_branch calls, accepted, rejected or
\* failed, there are as many branches as before the sequence and every
\* commit has as many branches pointing to it as before.
C37_RenamesKeepBranchesAndTips ==
    rename_log # <<>> =>
        LET start == rename_log[1].before IN
        /\ Cardinality(DOMAIN branches) = Cardinality(DOMAIN start)
        /\ \A t \in Tips : PointingTo(branches, t) = PointingTo(start, t)

\* Two calls have been made on branches that point to different commits:
\* one renamed a branch, the other was rejected.
C37_Witness ==
    /\ Len(rename_log) = 2
    /\ \E j, k \in 1..2 : /\ rename_log[j].returns = "True"
                          /\ rename_log[k].returns = "False"
    /\ \E a, b \in DOMAIN branches : branches[a] # branches[b]

----------------------------------------------------------------------------
(* Termination of process_batch *)

\* C39: when every external call returns or raises, process_batch returns,
\* having gone through the loop once for every URL of the worklist: there is
\* one result per URL.
C39_ProcessBatchTerminates ==
    <>(pc = "returned" /\ Len(batch_results) = Len(repo_urls))

\* process_batch has returned from a worklist of two items, one of which
\* succeeded and one of which failed.
C39_Witness ==
    /\ pc = "returned"
    /\ Len(repo_urls) = 2
    /\ \E j, k \in DOMAIN batch_results :
          batch_results[j].success /\ ~batch_results[k].success

----------------------------------------------------------------------------
(* The buttons come back *)

\* C38: once Execute has been pressed and the buttons are disabled, they are
\* enabled again, whichever way the worker thread ends, unless the window is
\* closed first.
C38_ButtonsReenabled ==
    (window = "open" /\ widgets["Execute"] = "disabled")
        ~> (window = "destroyed" \/ widgets["Execute"] = "normal")

\* The buttons have been enabled again after a run that ended with an
\* exception.
C38_Witness ==
    /\ window = "open"
    /\ runs = 1
    /\ pc = "single_done"
    /\ faults # {}
    /\ handler = "after"
    /\ widgets["Execute"] = "normal"

----------------------------------------------------------------------------
(* What a successful item has done *)

\* The operations the operations dictionary asks for: a rewrite when an
\* identity or date randomization is given, a rename when there is a
\* mapping, a scrub when there are patterns, publishing when there is a
\* destination or the means to make one.
Requested ==
    {op \in {"rewrite_history", "rename_branches", "clean_sensitive_data",
             "setup_remote_and_push"} :
        \/ /\ op = "rewrite_history"
           /\ \/ Truthy(operations.new_author) /\ Truthy(operations.new_email)
              \/ operations.randomize_dates
        \/ op = "rename_branches" /\ Truthy(operations.branch_mapping)
        \/ op = "clean_sensitive_data" /\ Truthy(operations.patterns)
        \/ /\ op = "setup_remote_and_push"
           /\ \/ Truthy(operations.remote_url)
              \/ Truthy(operations.token) /\ Truthy(operations.repo_name_template)}

\* C33: for an item reported with success = true, every operation asked for
\* was called and is listed in operations_completed, date randomization
\* without an identity and a scrub with an empty replacement included.
C33_SuccessMeansAllRequestedRan ==
    \A k \in 1..Len(batch_results) :
        batch_results[k].success =>
            \A op \in Requested :
                /\ op \in Range(StepsOf(k))
                /\ op \in Range(batch_results[k].operations_completed)

----------------------------------------------------------------------------
(* The committer after an identity rewrite *)

\* C34: after update_commit_metadata succeeds with a new identity, every
\* commit reachable from any ref has that name and email as its committer,
\* also a commit whose author was the new identity already while its
\* committer was not.
C34_EveryCommitterIsNewIdentity ==
    (CallSucceeded /\ IdentityGiven) =>
        \A c \in AllCommits(refs) : c.committer = GivenIdentity

----------------------------------------------------------------------------
(* The working copy the steps of an item run on *)

\* The positions of process_batch at which a step of the item is called.
AtStep ==
    pc \in {"rewrite_history", "rename_branches", "clean_sensitive_data",
            "setup_remote_and_push"}

\* C36: when a step of item k is called, the controller's path, its handler
\* and the modules built by initialize are those of the directory cloned for
\* item k, the k-th directory made, which exists; and no rewrite, rename,
\* scrub or publish step is called for an item whose acquisition failed.
C36_StepsUseOwnWorkingCopy ==
    /\ AtStep =>
          /\ modules_path = i
          /\ repo_path = i
          /\ repo_handler.temp_dir = i
          /\ repo_handler.repo = repo_urls[i]
          /\ i \in disk
    /\ \A k \in 1..Len(repo_urls) :
          AcquisitionFailed(k) => OperationsRun(k) = <<>>

\* The acquisition of the second item has failed after the first item
\* succeeded with steps of its own: the modules are still those of the
\* first item.
C36_Witness ==
    /\ i = 2
    /\ pc = "finally"
    /\ AcquisitionFailed(2)
    /\ batch_results[1].success
    /\ OperationsRun(1) # <<>>
    /\ modules_path = 1

----------------------------------------------------------------------------
(* setup_remote_and_push on the remotes of the working copy *)

\* The URL clone_repo leaves on 'origin', and the clone_url GitHub answers
\* for a repository it created.
SourceUrl == "src"
CreatedUrl == "created"

\* The arguments of setup_remote_and_push.
PublishArguments ==
    [remote_url : {None, ""} \cup RemoteUrls,
     token      : {None, "tok"},
     repo_name  : {None, "name"}]

\* configure_remote that reports success and leaves the remotes as they are.
ConfigureRemote_LeavesOrigin(rs, remote_url, outcome) ==
    [remotes |-> rs, returns |-> IF outcome = "raises" THEN "raises" ELSE "True"]

\* RemoteRepositoryManager.configure_remote: add_remote on 'origin'; True or
\* False as add_remote answers, an exception is raised again.
ConfigureRemote(rs, remote_url, outcome) ==
    AddRemote(rs, "origin", remote_url, outcome)

\* BackendController.setup_remote_and_push on the remotes rs: what it calls,
\* the remotes it leaves, the URL 'origin' has when push_changes pushes to
\* it, and what it answers.
SetupRemoteAndPushOn(rs, args, outcome) ==
    LET provisions == Provisions(args.remote_url, args.token, args.repo_name)
        created == provisions /\ outcome # "provision_raises"
        remote_url == IF created THEN CreatedUrl ELSE args.remote_url
        quiet == [remotes |-> rs, pushed_to |-> None]
    IN IF provisions /\ ~created
           THEN quiet @@ [calls |-> <<"create_remote_repo">>, returns |-> "raise"]
       ELSE IF ~Truthy(remote_url)
           THEN quiet @@ [calls |-> <<>>, returns |-> "False"]
       ELSE LET r == ConfigureRemote(rs, remote_url,
                        IF outcome = "configure_raises" THEN "raises" ELSE "ok")
                calls == SetupRemoteAndPushCalls(outcome, provisions)
            IN IF r.returns = "raises"
                   THEN [remotes |-> r.remotes, pushed_to |-> None,
                         calls |-> calls, returns |-> "raise"]
               ELSE [remotes |-> r.remotes,
                     pushed_to |-> r.remotes["origin"],
                     calls |-> calls,
                     returns |-> SetupRemoteAndPush(outcome, provisions)]

SetupRemoteAndPushCall ==
    /\ Len(remote_log) < MaxRemoteCalls
    /\ \E args \in PublishArguments, outcome \in PublishOutcomes :
          LET r == SetupRemoteAndPushOn(remotes, args, outcome) IN
          /\ outcome = "provision_raises"
                => Provisions(args.remote_url, args.token, args.repo_name)
          /\ remotes' = r.remotes
          /\ remote_log' = Append(remote_log,
                [op |-> "setup_remote_and_push", args |-> args,
                 outcome |-> outcome, before |-> remotes,
                 after |-> r.remotes, calls |-> r.calls,
                 pushed_to |-> r.pushed_to, returns |-> r.returns])

\* The working copy is a clone: 'origin' is the URL it was cloned from.
InitPublish ==
    /\ BatchIdle
    /\ RewriteIdle
    /\ TimelineIdle
    /\ GuiIdle
    /\ BranchesIdle
    /\ ScrubIdle
    /\ LoggingIdle
    /\ FindIdle
    /\ WindowIdle
    /\ remotes = [n \in {"origin"} |-> SourceUrl]
    /\ remote_log = <<>>

NextPublish == SetupRemoteAndPushCall /\ UNCHANGED outsideRemotes

SpecPublish == InitPublish /\ [][NextPublish]_vars

\* The URL a call is to push to: the one given, or the created one.
Destination(e) ==
    IF Truthy(e.args.remote_url) THEN e.args.remote_url ELSE CreatedUrl

\* C35: setup_remote_and_push calls create_remote_repo, configure_remote and
\* push_changes in that order and each at most once; it provisions exactly
\* when a token and a name are given and no URL is; it pushes only when no
\* earlier call raised and 'origin' has been set to the destination URL, so
\* never to the source URL unless that is the destination given; and with
\* neither a URL nor a token and a name it calls nothing and leaves the
\* remotes alone.
C35_ProvisionConfigurePush ==
    \A k \in 1..Len(remote_log) :
        LET e == remote_log[k]
            called(c) == \E n \in 1..Len(e.calls) : e.calls[n] = c
            available == \/ Truthy(e.args.remote_url)
                         \/ Truthy(e.args.token) /\ Truthy(e.args.repo_name)
        IN /\ e.calls = SelectSeq(<<"create_remote_repo", "configure_remote",
                                    "push_changes">>, called)
           /\ called("create_remote_repo")
                 <=> Provisions(e.args.remote_url, e.args.token, e.args.repo_name)
           /\ called("push_changes") =>
                 /\ called("configure_remote")
                 /\ e.outcome \notin {"provision_raises", "configure_raises"}
                 /\ e.pushed_to = Destination(e)
                 /\ e.after["origin"] = Destination(e)
                 /\ Destination(e) # SourceUrl => e.pushed_to # SourceUrl
           /\ (\/ called("create_remote_repo") /\ e.outcome = "provision_raises"
               \/ called("configure_remote") /\ e.outcome = "configure_raises")
                 => ~called("push_changes") /\ e.returns = "raise"
           /\ ~available => e.calls = <<>> /\ e.after = e.before

\* A call that provisions, configures and pushes, after one whose
\* configuration raised and that left 'origin' on the source URL.
C35_Witness ==
    /\ Len(remote_log) = 2
    /\ remote_log[1].outcome = "configure_raises"
    /\ remote_log[1].returns = "raise"
    /\ remote_log[1].after["origin"] = SourceUrl
    /\ remote_log[2].calls
          = <<"create_remote_repo", "configure_remote", "push_changes">>
    /\ remote_log[2].before["origin"] = SourceUrl
    /\ remote_log[2].pushed_to = CreatedUrl

----------------------------------------------------------------------------
(* The commit clean_sensitive_data makes after the identity rewrite *)

\* The identity git commit takes from the configuration of the machine
\* (user.name and user.email): no code sets it, so it is the requested one
\* or another one.
ConfiguredIdentities == {NewIdentity, OldIdentity}

\* The tree and message of the 'Clean sensitive data' commit: one more than
\* those of the cloned history.
CleanSlot == MaxCommits + 1

\* clean_sensitive_data when update_all_files counted a modified file: git
\* add and git commit on the checked-out branch, made by the configured
\* identity on top of the rewritten history.
CommitCleanedFiles ==
    /\ call.state = "returned"
    /\ refs[HEAD].slot # CleanSlot
    /\ \E id \in ConfiguredIdentities :
          refs' = [refs EXCEPT ![HEAD] =
                      [slot      |-> CleanSlot,
                       author    |-> id,
                       committer |-> id,
                       adate     |-> MaxCommits + 1,
                       cdate     |-> MaxCommits + 1,
                       parents   |-> {refs[HEAD]}]]
    /\ UNCHANGED <<refs0, new_dates, call, sha7, scratch>>

NextScrubCommit ==
    \/ UpdateCommitMetadata /\ UNCHANGED outsideRewrite
    \/ CommitCleanedFiles /\ UNCHANGED outsideRewrite

SpecScrubCommit == InitRewrite /\ [][NextScrubCommit]_vars

\* C32: after an identity rewrite that returned and a scrub that committed,
\* every commit of the branch that is pushed, the 'Clean sensitive data'
\* commit included, has the new name and email as its author.
C32_PushedCommitsCarryNewAuthor ==
    (CallSucceeded /\ IdentityGiven /\ refs[HEAD].slot = CleanSlot) =>
        \A c \in Reachable(refs[HEAD]) : c.author = GivenIdentity

====
